---- MODULE Spec2Model ----
(***************************************************************************)
(* Model of the hierarchical configuration resolver CdkConfig              *)
(* (@cdklib/config): deepMerge, the environment hierarchy expansion, the   *)
(* mutators setDefault / set / addRuntime and the resolution get.          *)
(*                                                                         *)
(* Configuration values are JavaScript values.  A value is a record        *)
(*   [k |-> kind, s |-> scalar text, m |-> own properties in key order]    *)
(* with kind one of "str", "num", "bool", "null", "undef", "obj", "arr".   *)
(* An env id (path key) is the sequence of its characters, so that         *)
(* includes('/'), split('/') and the re-joining of the parts are computed  *)
(* as the code computes them.                                              *)
(***************************************************************************)
EXTENDS Naturals, Sequences, FiniteSets, TLC

\* The resolver's fields, then the history of the calls made on it:
\* defaultLog: the fragments passed to setDefault, in call order;
\* setLog[k]: per key, each set call's fragment and the override it found,
\* and both objects as the call left them;
\* lastGet: the last get since the last mutator call (env id, the merge
\* steps, the accumulator handed to the schema, the outcome), with the
\* outcome of the get before it when that was a get of the same env id.
\* runtimeLog: the functions passed to addRuntime, in call order.
\* mergeCall: a direct call of deepMerge (its arguments, and once it has
\* returned, its result and the arguments as the call left them).
\* hierarchyCall: a direct call of getEnvironmentHierarchy.
\* instance: what `new CdkConfig(schema)` left: its state is "none" before the
\* call, "CdkConfig" once an instance exists (with this.schema), "Error" when
\* the constructor threw.
\* constructs: the construct tree, per node whether it was created and the
\* env id set in its context.
\* returned: the value of the last `new CdkConfig(...)`, setDefault, set or
\* addRuntime call expression: the object the next call of a chain is made on.
\* The other packages of the repository:
\* policies: the AwsPolicy objects (@cdklib/aws-policy), each with its
\* statements; policyCall: the last call made on the policy classes.
\* prepared: the AwsPreparedPolicy objects, each the template function it was
\* built from and the parameters its fillPartial calls closed over.
\* synthPath: the synth path set in the context of each construct
\* (@cdklib/argo-synth); pathCall: the last addSynthPath call.
\* synth: one run of synthApps: its options, the file system operations it
\* issued (each "notIssued", "pending", "done" or "failed"), and the
\* directories and files that exist.
VARIABLES defaultValues, overrides, runtimeConfigs, defaultLog, setLog, lastGet,
          mergeCall, runtimeLog, hierarchyCall, instance, constructs, returned,
          policies, policyCall, prepared, synthPath, pathCall, synth

vars == <<defaultValues, overrides, runtimeConfigs, defaultLog, setLog, lastGet,
          mergeCall, runtimeLog, hierarchyCall, instance, constructs, returned,
          policies, policyCall, prepared, synthPath, pathCall, synth>>

\* The state of the other packages.
packages == <<policies, policyCall, prepared, synthPath, pathCall, synth>>

\* What the methods of the resolver never touch.
outside == <<mergeCall, hierarchyCall, instance, constructs, packages>>

\* The state of the resolver and of the calls made on it.
resolver == <<defaultValues, overrides, runtimeConfigs, defaultLog, setLog, lastGet,
              mergeCall, runtimeLog, hierarchyCall, instance, returned>>

(* ------------------------------------------------------------------ *)
(* Bounds                                                             *)
(* ------------------------------------------------------------------ *)

\* The number of setDefault / set / addRuntime calls of one run.
MaxOps == 3

\* The length of the env ids getEnvironmentHierarchy is called with directly.
MaxLen == 5

(* ------------------------------------------------------------------ *)
(* JavaScript values                                                  *)
(* ------------------------------------------------------------------ *)

Str(s) == [k |-> "str", s |-> s, m |-> <<>>]
Num(s) == [k |-> "num", s |-> s, m |-> <<>>]
Bool(s) == [k |-> "bool", s |-> s, m |-> <<>>]
Null == [k |-> "null", s |-> "", m |-> <<>>]
Undef == [k |-> "undef", s |-> "", m |-> <<>>]
Entry(key, val) == [key |-> key, val |-> val]
Obj(m) == [k |-> "obj", s |-> "", m |-> m]
Arr(m) == [k |-> "arr", s |-> "", m |-> m]
\* A call that ended in a thrown TypeError, in the place of its result.
TypeError == [k |-> "TypeError", s |-> "", m |-> <<>>]

\* Object.keys(v): the own keys in property order.
ObjectKeys(v) == [i \in 1..Len(v.m) |-> v.m[i].key]

\* Object.prototype.hasOwnProperty.call(v, key)
hasOwnProperty(v, key) == \E i \in 1..Len(v.m) : v.m[i].key = key

\* v[key]: the property's value, undefined when v has no such property.
Prop(v, key) ==
    IF hasOwnProperty(v, key)
    THEN v.m[CHOOSE i \in 1..Len(v.m) : v.m[i].key = key].val
    ELSE Undef

\* The property keys that are array indices: the canonical numeric strings.
IndexKeys == {ToString(i) : i \in 0..9}

IsArrayIndex(key) == key \in IndexKeys

\* The number an array index key stands for.
IndexValue(key) == CHOOSE i \in 0..9 : ToString(i) = key

\* The own properties of an object that was assigned the given entries in
\* sequence, in property order: the array-index keys in ascending numeric
\* order, then the other keys in the order they were created.
OwnPropertyOrder(entries) ==
    IF \A i \in 1..Len(entries) : ~IsArrayIndex(entries[i].key) THEN entries
    ELSE SortSeq(SelectSeq(entries, LAMBDA e : IsArrayIndex(e.key)),
                 LAMBDA e, f : IndexValue(e.key) < IndexValue(f.key))
         \o SelectSeq(entries, LAMBDA e : ~IsArrayIndex(e.key))

\* x === undefined || x === null
IsNullish(v) == v.k \in {"undef", "null"}

\* typeof x === 'object' && x !== null && !Array.isArray(x)
IsPlainObject(v) == v.k = "obj"

\* JavaScript truthiness, as `if (x)` tests it.
Truthy(v) ==
    CASE v.k \in {"undef", "null"} -> FALSE
      [] v.k = "str" -> v.s # ""
      [] v.k = "num" -> v.s \notin {"0", "NaN"}
      [] v.k = "bool" -> v.s = "true"
      [] OTHER -> TRUE

\* `${x}`: the string a template literal makes of a value.
TemplateString(v) ==
    CASE v.k = "undef" -> "undefined"
      [] v.k = "null" -> "null"
      [] v.k = "obj" -> "[object Object]"
      [] v.k = "arr" -> "[array]"
      [] OTHER -> v.s

(* ------------------------------------------------------------------ *)
(* deepMerge                                                          *)
(* ------------------------------------------------------------------ *)

\* Mutant: the keys of override are visited first.
allKeys_overrideFirst(original, override) ==
    ObjectKeys(override) \o
    SelectSeq(ObjectKeys(original), LAMBDA key : ~hasOwnProperty(override, key))

\* new Set([...Object.keys(original), ...Object.keys(override)]) in
\* iteration (first insertion) order.
allKeys(original, override) ==
    ObjectKeys(original) \o
    SelectSeq(ObjectKeys(override), LAMBDA key : ~hasOwnProperty(original, key))

RECURSIVE deepMerge_skipNullish(_, _)
\* Mutant: a null or undefined override value is taken as "no override" and
\* the original's value kept.
deepMerge_skipNullish(original, override) ==
    LET keys == allKeys(original, override)
        merged(key) ==
            LET hasKeyInOverride == hasOwnProperty(override, key)
                overrideValue == Prop(override, key)
                hasKeyInOriginal == hasOwnProperty(original, key)
                originalValue == Prop(original, key)
            IN  IF ~hasKeyInOverride \/ (hasKeyInOriginal /\ IsNullish(overrideValue))
                THEN originalValue
                ELSE IF ~hasKeyInOriginal THEN overrideValue
                ELSE IF IsPlainObject(originalValue) /\ IsPlainObject(overrideValue)
                     THEN deepMerge_skipNullish(originalValue, overrideValue)
                     ELSE overrideValue
    IN  Obj([i \in 1..Len(keys) |-> Entry(keys[i], merged(keys[i]))])

RECURSIVE deepMerge_concatArrays(_, _)
\* Mutant: two arrays are concatenated instead of the override's replacing
\* the original's.
deepMerge_concatArrays(original, override) ==
    LET keys == allKeys(original, override)
        concat(x, y) ==
            Arr([i \in 1..(Len(x.m) + Len(y.m)) |->
                    Entry(ToString(i - 1),
                          IF i <= Len(x.m) THEN x.m[i].val ELSE y.m[i - Len(x.m)].val)])
        merged(key) ==
            LET hasKeyInOverride == hasOwnProperty(override, key)
                overrideValue == Prop(override, key)
                hasKeyInOriginal == hasOwnProperty(original, key)
                originalValue == Prop(original, key)
            IN  IF hasKeyInOverride /\ IsNullish(overrideValue) THEN overrideValue
                ELSE IF ~hasKeyInOverride THEN originalValue
                ELSE IF ~hasKeyInOriginal THEN overrideValue
                ELSE IF IsPlainObject(originalValue) /\ IsPlainObject(overrideValue)
                     THEN deepMerge_concatArrays(originalValue, overrideValue)
                     ELSE IF originalValue.k = "arr" /\ overrideValue.k = "arr"
                          THEN concat(originalValue, overrideValue)
                          ELSE overrideValue
    IN  Obj([i \in 1..Len(keys) |-> Entry(keys[i], merged(keys[i]))])

\* Mutant: a shallow merge, a key of override replaces the original's value
\* whatever the two values are.
deepMerge_shallow(original, override) ==
    LET keys == allKeys(original, override)
        merged(key) ==
            IF hasOwnProperty(override, key) THEN Prop(override, key)
            ELSE Prop(original, key)
    IN  Obj([i \in 1..Len(keys) |-> Entry(keys[i], merged(keys[i]))])

RECURSIVE deepMerge(_, _)
\* The object deepMerge returns: one property per key of allKeys.
deepMerge(original, override) ==
    LET keys == allKeys(original, override)
        merged(key) ==
            LET hasKeyInOverride == hasOwnProperty(override, key)
                overrideValue == Prop(override, key)
                hasKeyInOriginal == hasOwnProperty(original, key)
                originalValue == Prop(original, key)
            IN  IF hasKeyInOverride /\ IsNullish(overrideValue) THEN overrideValue
                ELSE IF ~hasKeyInOverride THEN originalValue
                ELSE IF ~hasKeyInOriginal THEN overrideValue
                ELSE IF IsPlainObject(originalValue) /\ IsPlainObject(overrideValue)
                     THEN deepMerge(originalValue, overrideValue)
                     ELSE overrideValue
    IN  Obj(OwnPropertyOrder([i \in 1..Len(keys) |-> Entry(keys[i], merged(keys[i]))]))

\* Object.keys(original) or Object.keys(override) throws a TypeError when the
\* argument is undefined or null.
deepMergeThrows(original, override) == IsNullish(original) \/ IsNullish(override)

\* Mutant: the result is built in `original` itself (const result = original).
deepMergeOriginalAfter_aliased(original, override) ==
    IF deepMergeThrows(original, override) THEN original
    ELSE deepMerge(original, override)

\* The object passed as `original`, after the call: deepMerge assigns only
\* to properties of its own `result`.
deepMergeOriginalAfter(original, override) == original

\* The object passed as `override`, after the call.
deepMergeOverrideAfter(original, override) == override

(* ------------------------------------------------------------------ *)
(* Env ids and the environment hierarchy                              *)
(* ------------------------------------------------------------------ *)

\* envId.includes('/')
includes(envId) == \E i \in 1..Len(envId) : envId[i] = "/"

RECURSIVE splitFrom(_, _, _)
\* envId.split('/') from character i on, `current` being the part read so far.
splitFrom(envId, i, current) ==
    IF i > Len(envId) THEN <<current>>
    ELSE IF envId[i] = "/" THEN <<current>> \o splitFrom(envId, i + 1, <<>>)
    ELSE splitFrom(envId, i + 1, Append(current, envId[i]))

split(envId) == splitFrom(envId, 1, <<>>)

RECURSIVE prefixPaths(_, _, _)
\* The loop over parts: parts[0] first, then `${currentPath}/${parts[i]}`.
prefixPaths(parts, i, currentPath) ==
    IF i > Len(parts) THEN <<>>
    ELSE LET next == IF i = 1 THEN parts[1] ELSE currentPath \o <<"/">> \o parts[i]
         IN  <<next>> \o prefixPaths(parts, i + 1, next)

\* Mutant: the segments most specific first.
getEnvironmentHierarchy_reversed(envId) ==
    LET segments == IF includes(envId) THEN prefixPaths(split(envId), 1, <<>>)
                    ELSE <<envId>>
    IN  [i \in 1..Len(segments) |-> segments[Len(segments) + 1 - i]]

\* Mutant: every non-empty string prefix of the env id is a segment.
getEnvironmentHierarchy_allPrefixes(envId) ==
    IF Len(envId) = 0 THEN <<envId>>
    ELSE [i \in 1..Len(envId) |-> SubSeq(envId, 1, i)]

getEnvironmentHierarchy(envId) ==
    IF includes(envId) THEN prefixPaths(split(envId), 1, <<>>) ELSE <<envId>>

RECURSIVE envIdString(_)
\* The env id as the string value a runtime function or a fragment holds.
envIdString(envId) ==
    IF envId = <<>> THEN "" ELSE Head(envId) \o envIdString(Tail(envId))

\* A direct call of getEnvironmentHierarchy that was not made yet.
NoHierarchy == [called |-> FALSE, envId |-> <<>>, segments |-> <<>>]

(* ------------------------------------------------------------------ *)
(* The construct tree and the env id in its context                   *)
(* ------------------------------------------------------------------ *)

\* The constructs: root, its children child1 and child2, and child1's child
\* grandchild.  scopeOf is the scope each is created in, "" for the root.
Nodes == {"root", "child1", "grandchild", "child2"}

scopeOf(node) ==
    CASE node = "child1" -> "root"
      [] node = "child2" -> "root"
      [] node = "grandchild" -> "child1"
      [] OTHER -> ""

\* node._context[ENV_CONTEXT_KEY] when it was never set.
NoContext == [set |-> FALSE, envId |-> <<>>]

NoConstructs == [node \in Nodes |-> [created |-> FALSE, context |-> NoContext]]

\* A Construct passed as the context of getEnvId / get; an env id is the
\* sequence of its characters, which never starts with this marker.
Construct(node) == <<"Construct", node>>

\* context instanceof Construct
IsConstruct(context) == Len(context) = 2 /\ context[1] = "Construct"

\* node.children of the tree
children(tree, node) == {c \in Nodes : scopeOf(c) = node /\ tree[c].created}

\* node.setContext throws once the node has children.
setContextThrows(tree, node) == children(tree, node) # {}

\* The Error node.getContext throws, in the place of the env id.
NoContextError == <<"Error", "No context value present">>

\* Mutant: only the construct's own context is read.
getContext_ownOnly(tree, node) ==
    IF tree[node].context.set THEN tree[node].context.envId
    ELSE NoContextError

RECURSIVE getContext(_, _)
\* node.getContext(ENV_CONTEXT_KEY): the construct's own value when set,
\* else its scope's, an Error when no construct up to the root has one.
getContext(tree, node) ==
    IF tree[node].context.set THEN tree[node].context.envId
    ELSE IF scopeOf(node) = "" THEN NoContextError
    ELSE getContext(tree, scopeOf(node))

\* Mutant: a construct without env id resolves as the env id 'a'.
getEnvId_masked(context) ==
    IF ~IsConstruct(context) THEN context
    ELSE IF getContext(constructs, context[2]) = NoContextError THEN <<"a">>
    ELSE getContext(constructs, context[2])

\* getEnvId(context): an env id is returned as it is, a Construct's env id
\* is looked up in its context.
getEnvId(context) ==
    IF ~IsConstruct(context) THEN context
    ELSE getContext(constructs, context[2])

(* ------------------------------------------------------------------ *)
(* Schema validation (zod)                                            *)
(* ------------------------------------------------------------------ *)

Field(key, type, optional, hasDefault, dflt) ==
    [key |-> key, type |-> type, optional |-> optional,
     hasDefault |-> hasDefault, dflt |-> dflt]

\* simpleSchema: name: z.string(), version: z.string().optional(),
\* isEnabled: z.boolean().default(true)
simpleSchema ==
    << Field("name", "string", FALSE, FALSE, Undef),
       Field("version", "string", TRUE, FALSE, Undef),
       Field("isEnabled", "boolean", FALSE, TRUE, Bool("true")) >>

\* typeof, as the schema's type checks see a value.
TypeOf(v) ==
    CASE v.k = "str" -> "string"
      [] v.k = "num" -> "number"
      [] v.k = "bool" -> "boolean"
      [] v.k = "undef" -> "undefined"
      [] v.k = "null" -> "null"
      [] v.k = "arr" -> "array"
      [] OTHER -> "object"

\* Mutant: .default() is ignored, the field is parsed as an optional one.
parseField_noDefault(field, v) ==
    IF (field.hasDefault \/ field.optional) /\ v.k = "undef"
    THEN [ok |-> TRUE, value |-> Undef]
    ELSE IF TypeOf(v) = field.type THEN [ok |-> TRUE, value |-> v]
    ELSE [ok |-> FALSE, value |-> Undef]

\* One field of the object schema parsed against the input's property:
\* .default() replaces undefined, .optional() lets undefined through,
\* otherwise the value must have the declared type.
parseField(field, v) ==
    IF field.hasDefault /\ v.k = "undef" THEN [ok |-> TRUE, value |-> field.dflt]
    ELSE IF field.optional /\ v.k = "undef" THEN [ok |-> TRUE, value |-> Undef]
    ELSE IF TypeOf(v) = field.type THEN [ok |-> TRUE, value |-> v]
    ELSE [ok |-> FALSE, value |-> Undef]

\* schema.parse(data): the parsed object (the schema's keys only, a key being
\* set when the input has it or its parsed value is not undefined), or a
\* ZodError naming the offending fields.
parse(schema, data) ==
    IF data.k # "obj"
    THEN [status |-> "ZodError", value |-> Undef, issues |-> << <<>> >>]
    ELSE LET parsed == [i \in 1..Len(schema) |->
                           parseField(schema[i], Prop(data, schema[i].key))]
             bad == SelectSeq([i \in 1..Len(schema) |-> i],
                              LAMBDA i : ~parsed[i].ok)
             set == SelectSeq([i \in 1..Len(schema) |-> i],
                              LAMBDA i : \/ parsed[i].value.k # "undef"
                                         \/ hasOwnProperty(data, schema[i].key))
         IN  IF Len(bad) > 0
             THEN [status |-> "ZodError", value |-> Undef,
                   issues |-> [j \in 1..Len(bad) |-> <<schema[bad[j]].key>>]]
             ELSE [status |-> "ok",
                   value |-> Obj([j \in 1..Len(set) |->
                                    Entry(schema[set[j]].key, parsed[set[j]].value)]),
                   issues |-> <<>>]

(* ------------------------------------------------------------------ *)
(* Inputs: env ids, fragments, runtime functions                      *)
(* ------------------------------------------------------------------ *)

\* 'a', 'a/b', 'a/bc', 'a/b/c': a chain of three, and 'a/bc', of which 'a/b'
\* is a sibling and a string prefix that does not end at a '/'.
EnvIds ==
    { <<"a">>, <<"a", "/", "b">>, <<"a", "/", "b", "c">>,
      <<"a", "/", "b", "/", "c">> }

\* { name: 'svc', isEnabled: false, tags: { Team: 'x' }, features: ['staging'] }
fragSvc ==
    Obj(<< Entry("name", Str("svc")), Entry("isEnabled", Bool("false")),
           Entry("tags", Obj(<< Entry("Team", Str("x")) >>)),
           Entry("features", Arr(<< Entry("0", Str("staging")) >>)) >>)
\* { name: 'app', version: '1.0', tags: { Owner: 'y' },
\*   features: ['api', 'backend'] }
fragApp ==
    Obj(<< Entry("name", Str("app")), Entry("version", Str("1.0")),
           Entry("tags", Obj(<< Entry("Owner", Str("y")) >>)),
           Entry("features", Arr(<< Entry("0", Str("api")),
                                    Entry("1", Str("backend")) >>)) >>)
\* { name: null, tags: undefined, isEnabled: undefined }
fragErase ==
    Obj(<< Entry("name", Null), Entry("tags", Undef), Entry("isEnabled", Undef) >>)

Fragments == {fragSvc, fragApp, fragErase}

RuntimeFns == {"rtSuffix", "rtEnv", "rtBad"}

\* The runtime functions, each a pure function of (envId, config):
\*   rtSuffix: (_, config) => ({ name: `${config.name}-dev` })
\*   rtEnv:    (envId, config) => ({ version: `${config.name}`,
\*                                   tags: { Environment: envId } })
\*   rtBad:    () => ({ name: 123, tags: ['t'] })
runtimeConfigFn(fn, envId, config) ==
    CASE fn = "rtSuffix" ->
           Obj(<< Entry("name", Str(TemplateString(Prop(config, "name")) \o "-dev")) >>)
      [] fn = "rtEnv" ->
           Obj(<< Entry("version", Str(TemplateString(Prop(config, "name")))),
                  Entry("tags", Obj(<< Entry("Environment", Str(envIdString(envId))) >>)) >>)
      [] fn = "rtBad" ->
           Obj(<< Entry("name", Num("123")),
                  Entry("tags", Arr(<< Entry("0", Str("t")) >>)) >>)

(* ------------------------------------------------------------------ *)
(* The resolver                                                       *)
(* ------------------------------------------------------------------ *)

\* The schemas passed to the constructor: z.object({ ... }) with the shape of
\* simpleSchema, z.string() and z.array(z.string()).
ZodObject(shape) == [type |-> "ZodObject", shape |-> shape]
ZodString == [type |-> "ZodString", shape |-> <<>>]
ZodArray == [type |-> "ZodArray", shape |-> <<>>]
NoSchema == [type |-> "none", shape |-> <<>>]

Schemas == {ZodObject(simpleSchema), ZodString, ZodArray}

\* The mergeFn argument of the constructor: left out, or a custom function.
Omitted == "undefined"
MergeFnArgs == {Omitted, "customMerge"}

NoInstance == [state |-> "none", arg |-> NoSchema, schema |-> NoSchema,
               mergeFn |-> "", error |-> ""]

\* Mutant: the constructor accepts any schema.
constructorThrows_never(schemaArg) == FALSE

\* !(schema instanceof z.ZodObject)
constructorThrows(schemaArg) == schemaArg.type # "ZodObject"

\* new CdkConfig(schemaArg): the instance with this.schema set, or the Error
\* thrown in its place.
newCdkConfig(schemaArg, mergeFnArg) ==
    IF constructorThrows(schemaArg)
    THEN [state |-> "Error", arg |-> schemaArg, schema |-> NoSchema,
          mergeFn |-> "", error |-> "Schema must be a Zod object"]
    ELSE [state |-> "CdkConfig", arg |-> schemaArg, schema |-> schemaArg,
          mergeFn |-> IF mergeFnArg = Omitted THEN "deepMerge" ELSE mergeFnArg,
          error |-> ""]

\* The resolver object, as a reference: what `this` is inside its methods.
this == "CdkConfig@1"

\* No call expression was evaluated yet, or the call threw.
NoReturn == "none"

\* Mutant: a mutator returns a copy of the resolver, a second object.
returnThis_copy == "CdkConfig@2"

\* `return this` of setDefault, set and addRuntime.
returnThis == this

\* this.schema, as the fields of its shape.
schema == instance.schema.shape

\* A custom merge function passed to the constructor, a shallow one:
\*   (original, override) => ({ ...original, ...override })
customMerge(original, override) ==
    LET keys == allKeys(original, override)
    IN  Obj(OwnPropertyOrder(
                [i \in 1..Len(keys) |->
                    Entry(keys[i], IF hasOwnProperty(override, keys[i])
                                   THEN Prop(override, keys[i])
                                   ELSE Prop(original, keys[i]))]))

\* Mutant: get merges with the built-in deepMerge whatever function the
\* constructor was given.
mergeFn_builtin(original, override) ==
    IF deepMergeThrows(original, override) THEN TypeError
    ELSE deepMerge(original, override)

\* this.mergeFn: the function the constructor was given, deepMerge by
\* default; deepMerge ends in a TypeError when Object.keys is handed
\* undefined or null.
mergeFn(original, override) ==
    IF instance.mergeFn = "customMerge" THEN customMerge(original, override)
    ELSE IF deepMergeThrows(original, override) THEN TypeError
    ELSE deepMerge(original, override)

\* ovr[key] of the overrides object: undefined when the key is not set.
overridesAt(ovr, key) == IF key \in DOMAIN ovr THEN ovr[key] ELSE Undef

NoOverrides == [key \in {} |-> Undef]

\* The fragment passed to set(envId, values), as the call leaves it.
setValuesAfter(ovr, envId, values) ==
    IF Truthy(overridesAt(ovr, envId))
    THEN deepMergeOverrideAfter(ovr[envId], values)
    ELSE values

\* The object that was the override of envId when set(envId, values) was
\* called, as the call leaves it.
setBeforeAfter(ovr, envId, values) ==
    IF Truthy(overridesAt(ovr, envId))
    THEN deepMergeOriginalAfter(ovr[envId], values)
    ELSE overridesAt(ovr, envId)

\* Mutant: set replaces the override of the key.
setOverrides_replace(ovr, envId, values) ==
    [key \in DOMAIN ovr \cup {envId} |-> IF key = envId THEN values ELSE ovr[key]]

\* Mutant: set starts from an empty overrides object, dropping the overrides
\* of the other keys.
setOverrides_dropOthers(ovr, envId, values) ==
    [key \in {envId} |->
        IF Truthy(overridesAt(ovr, envId)) THEN deepMerge(ovr[envId], values)
        ELSE values]

\* The overrides object after set(envId, values).
setOverrides(ovr, envId, values) ==
    IF Truthy(overridesAt(ovr, envId))
    THEN [ovr EXCEPT ![envId] = deepMerge(ovr[envId], values)]
    ELSE [key \in DOMAIN ovr \cup {envId} |->
             IF key = envId THEN values ELSE ovr[key]]

RECURSIVE segmentSteps_unguarded(_, _, _, _)
\* Mutant: every segment is merged, whether or not an override is set for it.
segmentSteps_unguarded(ovr, segments, i, mergedConfig) ==
    IF i > Len(segments) THEN <<>>
    ELSE LET segment == segments[i]
             result == mergeFn(mergedConfig, overridesAt(ovr, segment))
             step == [segment |-> segment, fn |-> "", envId |-> <<>>,
                      original |-> mergedConfig,
                      override |-> overridesAt(ovr, segment),
                      result |-> result,
                      originalAfter |->
                          deepMergeOriginalAfter(mergedConfig, overridesAt(ovr, segment)),
                      overrideAfter |->
                          deepMergeOverrideAfter(mergedConfig, overridesAt(ovr, segment))]
         IN  IF result = TypeError THEN <<step>>
             ELSE <<step>> \o segmentSteps_unguarded(ovr, segments, i + 1, result)

RECURSIVE segmentSteps(_, _, _, _)
\* The loop over the segments: one merge step per segment whose override is
\* set, each step recording the objects it was called with and its result.
segmentSteps(ovr, segments, i, mergedConfig) ==
    IF i > Len(segments) THEN <<>>
    ELSE LET segment == segments[i]
         IN  IF Truthy(overridesAt(ovr, segment))
             THEN LET result == mergeFn(mergedConfig, overridesAt(ovr, segment))
                      step == [segment |-> segment, fn |-> "", envId |-> <<>>,
                               original |-> mergedConfig,
                               override |-> overridesAt(ovr, segment),
                               result |-> result,
                               originalAfter |->
                                   deepMergeOriginalAfter(mergedConfig,
                                                          overridesAt(ovr, segment)),
                               overrideAfter |->
                                   deepMergeOverrideAfter(mergedConfig,
                                                          overridesAt(ovr, segment))]
                  IN  IF result = TypeError THEN <<step>>
                      ELSE <<step>> \o segmentSteps(ovr, segments, i + 1, result)
             ELSE segmentSteps(ovr, segments, i + 1, mergedConfig)

RECURSIVE runtimeSteps_stale(_, _, _, _)
\* Mutant: mergedConfig is not carried from one runtime function to the
\* next, so each function sees the config as it was before any of them ran.
runtimeSteps_stale(rts, envId, i, mergedConfig) ==
    IF i > Len(rts) THEN <<>>
    ELSE LET runtimeValues == runtimeConfigFn(rts[i], envId, mergedConfig)
             result == mergeFn(mergedConfig, runtimeValues)
             step == [segment |-> <<>>, fn |-> rts[i], envId |-> envId,
                      original |-> mergedConfig, override |-> runtimeValues,
                      result |-> result,
                      originalAfter |-> deepMergeOriginalAfter(mergedConfig, runtimeValues),
                      overrideAfter |-> deepMergeOverrideAfter(mergedConfig, runtimeValues)]
         IN  IF result = TypeError THEN <<step>>
             ELSE <<step>> \o runtimeSteps_stale(rts, envId, i + 1, mergedConfig)

RECURSIVE runtimeSteps_rootSegment(_, _, _, _)
\* Mutant: a runtime function is handed the root-most segment of the target
\* env id instead of the env id itself.
runtimeSteps_rootSegment(rts, envId, i, mergedConfig) ==
    IF i > Len(rts) THEN <<>>
    ELSE LET root == getEnvironmentHierarchy(envId)[1]
             runtimeValues == runtimeConfigFn(rts[i], root, mergedConfig)
             result == mergeFn(mergedConfig, runtimeValues)
             step == [segment |-> <<>>, fn |-> rts[i], envId |-> root,
                      original |-> mergedConfig, override |-> runtimeValues,
                      result |-> result,
                      originalAfter |-> deepMergeOriginalAfter(mergedConfig, runtimeValues),
                      overrideAfter |-> deepMergeOverrideAfter(mergedConfig, runtimeValues)]
         IN  IF result = TypeError THEN <<step>>
             ELSE <<step>> \o runtimeSteps_rootSegment(rts, envId, i + 1, result)

RECURSIVE runtimeSteps(_, _, _, _)
\* The loop over runtimeConfigs: each function is called with envId and the
\* current mergedConfig, and its values are merged in.
runtimeSteps(rts, envId, i, mergedConfig) ==
    IF i > Len(rts) THEN <<>>
    ELSE LET runtimeValues == runtimeConfigFn(rts[i], envId, mergedConfig)
             result == mergeFn(mergedConfig, runtimeValues)
             step == [segment |-> <<>>, fn |-> rts[i], envId |-> envId,
                      original |-> mergedConfig, override |-> runtimeValues,
                      result |-> result,
                      originalAfter |-> deepMergeOriginalAfter(mergedConfig, runtimeValues),
                      overrideAfter |-> deepMergeOverrideAfter(mergedConfig, runtimeValues)]
         IN  IF result = TypeError THEN <<step>>
             ELSE <<step>> \o runtimeSteps(rts, envId, i + 1, result)

\* Whether the last of the merge steps threw.
threw(steps) == Len(steps) > 0 /\ steps[Len(steps)].result = TypeError

\* The value of mergedConfig after the given merge steps.
lastResult(start, steps) ==
    IF Len(steps) = 0 THEN start ELSE steps[Len(steps)].result

\* Mutant: a failed validation is swallowed and the unvalidated accumulator
\* returned.
getOutcome_fallback(mergedConfig, parsed) ==
    IF parsed.status = "ZodError"
    THEN [status |-> "ok", value |-> mergedConfig, issues |-> <<>>]
    ELSE parsed

\* What get does with the parse: the parsed value is returned, a ZodError
\* propagates to the caller.
getOutcome(mergedConfig, parsed) == parsed

\* get(context) on a resolver holding (dflt, ovr, rts): the merge steps, the
\* accumulator handed to schema.parse, the outcome, and the resolver's
\* objects after the call.
resolve(dflt, ovr, rts, context) ==
    LET envId == getEnvId(context)
    IN
    IF envId = NoContextError
    THEN \* getEnvId threw: the Error leaves get before anything else runs.
         [ envId |-> envId, steps |-> <<>>, mergedConfig |-> Undef,
           outcome |-> [status |-> "Error", value |-> Undef, issues |-> <<>>],
           defaultValues |-> dflt, overrides |-> ovr ]
    ELSE
    LET segments == getEnvironmentHierarchy(envId)
        segs == segmentSteps(ovr, segments, 1, dflt)
        afterSegments == lastResult(dflt, segs)
        runs == IF threw(segs) THEN <<>>
                ELSE runtimeSteps(rts, envId, 1, afterSegments)
        steps == segs \o runs
        mergedConfig == lastResult(afterSegments, runs)
    IN  [ envId |-> envId,
          steps |-> steps,
          mergedConfig |-> mergedConfig,
          outcome |->
              IF threw(steps)
              THEN [status |-> "TypeError", value |-> Undef, issues |-> <<>>]
              ELSE getOutcome(mergedConfig, parse(schema, mergedConfig)),
          defaultValues |->
              IF Len(steps) = 0 THEN dflt ELSE steps[1].originalAfter,
          overrides |->
              [key \in DOMAIN ovr |->
                  IF \E j \in 1..Len(segs) : segs[j].segment = key
                  THEN LET j == CHOOSE j \in 1..Len(segs) : segs[j].segment = key
                       IN  segs[j].overrideAfter
                  ELSE ovr[key]] ]

\* An AwsPolicy that was not created.
NoPolicy == [state |-> "none", statements |-> <<>>]

PolicyIds == {"policy1", "policy2"}

PreparedIds == {"template", "stage1", "stage2"}

\* An AwsPreparedPolicy that was not created.
NoPrepared == [state |-> "none", template |-> "", partials |-> <<>>]

NoPolicyCall == [op |-> "none", target |-> "", given |-> <<>>, threw |-> FALSE,
                 before |-> NoPolicy, result |-> NoPolicy,
                 on |-> NoPrepared, params |-> Undef]

\* node._context[SYNTH_PATH_KEY] when it was never set.
NoSynthPath == [set |-> FALSE, path |-> <<>>]

\* No addSynthPath call was made; calls counts the calls made so far.
NoPathCall == [calls |-> 0, scope |-> "", suffixes |-> <<>>, threw |-> FALSE,
               before |-> <<>>]

\* No run of synthApps was started.
NoSynth == [state |-> "none", clean |-> FALSE, helmObject |-> "none", ops |-> <<>>,
            dirs |-> {}, files |-> {}]

\* No call was made on the other packages.
NoPackages ==
    /\ policies = [id \in PolicyIds |-> NoPolicy]
    /\ policyCall = NoPolicyCall
    /\ prepared = [id \in PreparedIds |-> NoPrepared]
    /\ synthPath = [node \in Nodes |-> NoSynthPath]
    /\ pathCall = NoPathCall
    /\ synth = NoSynth

NoOutcome == [status |-> "none", value |-> Undef, issues |-> <<>>]

NoGet == [called |-> FALSE, context |-> <<>>, envId |-> <<>>, steps |-> <<>>,
          mergedConfig |-> Undef, outcome |-> NoOutcome, previous |-> NoOutcome]

NoMerge == [called |-> FALSE, original |-> Undef, override |-> Undef,
            result |-> Undef, originalAfter |-> Undef, overrideAfter |-> Undef]

\* The number of mutator calls made so far.
OpCount ==
    Len(defaultLog) + Len(runtimeLog)
    + Len(setLog[<<"a">>]) + Len(setLog[<<"a", "/", "b">>])
    + Len(setLog[<<"a", "/", "b", "c">>]) + Len(setLog[<<"a", "/", "b", "/", "c">>])

Init ==
    /\ defaultValues = Obj(<<>>)
    /\ overrides = NoOverrides
    /\ runtimeConfigs = <<>>
    /\ defaultLog = <<>>
    /\ setLog = [envId \in EnvIds |-> <<>>]
    /\ lastGet = NoGet
    /\ mergeCall = NoMerge
    /\ runtimeLog = <<>>
    /\ hierarchyCall = NoHierarchy
    /\ instance = newCdkConfig(ZodObject(simpleSchema), Omitted)
    /\ constructs = NoConstructs
    /\ returned = this
    /\ NoPackages

\* Mutant: setDefault merges the fragment into the current default.
setDefault_merged(values) ==
    /\ OpCount < MaxOps
    /\ defaultValues' = deepMerge(defaultValues, values)
    /\ defaultLog' = Append(defaultLog, values)
    /\ lastGet' = NoGet
    /\ returned' = returnThis
    /\ UNCHANGED <<overrides, runtimeConfigs, setLog, runtimeLog, outside>>

setDefault(values) ==
    /\ OpCount < MaxOps
    /\ defaultValues' = values
    /\ defaultLog' = Append(defaultLog, values)
    /\ lastGet' = NoGet
    /\ returned' = returnThis
    /\ UNCHANGED <<overrides, runtimeConfigs, setLog, runtimeLog, outside>>

set(envId, values) ==
    /\ OpCount < MaxOps
    /\ overrides' = setOverrides(overrides, envId, values)
    /\ setLog' = [setLog EXCEPT ![envId] =
                     Append(@, [values |-> values,
                                before |-> overridesAt(overrides, envId),
                                valuesAfter |-> setValuesAfter(overrides, envId, values),
                                beforeAfter |-> setBeforeAfter(overrides, envId, values)])]
    /\ lastGet' = NoGet
    /\ returned' = returnThis
    /\ UNCHANGED <<defaultValues, runtimeConfigs, defaultLog, runtimeLog, outside>>

\* Mutant: a function already in the list is not added again.
addRuntime_dedup(configFn) ==
    /\ OpCount < MaxOps
    /\ runtimeConfigs' =
          IF \E i \in 1..Len(runtimeConfigs) : runtimeConfigs[i] = configFn
          THEN runtimeConfigs
          ELSE Append(runtimeConfigs, configFn)
    /\ lastGet' = NoGet
    /\ runtimeLog' = Append(runtimeLog, configFn)
    /\ returned' = returnThis
    /\ UNCHANGED <<defaultValues, overrides, defaultLog, setLog, outside>>

addRuntime(configFn) ==
    /\ OpCount < MaxOps
    /\ runtimeConfigs' = Append(runtimeConfigs, configFn)
    /\ lastGet' = NoGet
    /\ runtimeLog' = Append(runtimeLog, configFn)
    /\ returned' = returnThis
    /\ UNCHANGED <<defaultValues, overrides, defaultLog, setLog, outside>>

get(context) ==
    \E r \in {resolve(defaultValues, overrides, runtimeConfigs, context)} :
        /\ lastGet' = [called |-> TRUE, context |-> context,
                       envId |-> r.envId, steps |-> r.steps,
                       mergedConfig |-> r.mergedConfig, outcome |-> r.outcome,
                       previous |-> IF lastGet.called /\ lastGet.envId = r.envId
                                    THEN lastGet.outcome ELSE NoOutcome]
        /\ defaultValues' = r.defaultValues
        /\ overrides' = r.overrides
        /\ UNCHANGED <<runtimeConfigs, defaultLog, setLog, runtimeLog, outside,
                       returned>>

Next ==
    \/ \E values \in Fragments : setDefault(values)
    \/ \E envId \in EnvIds, values \in Fragments : set(envId, values)
    \/ \E configFn \in RuntimeFns : addRuntime(configFn)
    \/ \E context \in EnvIds : get(context)

Spec == Init /\ [][Next]_vars

\* The resolver under the same calls, for the claims about what the mutators
\* store and what a merge leaves of the objects it is given.
SpecStore == Init /\ [][Next]_vars

\* The resolver under setDefault, set and addRuntime calls alone, for the
\* claims about the stored state that no get is part of.
NextMutators ==
    \/ \E values \in Fragments : setDefault(values)
    \/ \E envId \in EnvIds, values \in Fragments : set(envId, values)
    \/ \E configFn \in RuntimeFns : addRuntime(configFn)

SpecMutators == Init /\ [][NextMutators]_vars

(* ------------------------------------------------------------------ *)
(* deepMerge called directly                                          *)
(* ------------------------------------------------------------------ *)

\* The values a property of a merged object holds: scalars, null, undefined,
\* an array, and mappings nested up to two levels.
\*   1, 'x', null, undefined, [1], { c: 1 }, { c: undefined },
\*   { c: { e: 1 }, d: 1 }, { c: { e: null } }
PropValues ==
    { Num("1"), Str("x"), Null, Undef, Arr(<< Entry("0", Num("1")) >>),
      Obj(<< Entry("c", Num("1")) >>),
      Obj(<< Entry("c", Undef) >>),
      Obj(<< Entry("c", Obj(<< Entry("e", Num("1")) >>)), Entry("d", Num("1")) >>),
      Obj(<< Entry("c", Obj(<< Entry("e", Null) >>)) >>) }

\*   2, null, { d: 2 }
SecondValues == { Num("2"), Null, Obj(<< Entry("d", Num("2")) >>) }

\* The objects deepMerge is called with: {}, { a }, { a, b }, { b, a }, and
\* objects with an array-index key, { 0 }, { 1, b } and { 0, 1 }.
MergeObjects ==
    {Obj(<<>>)}
    \cup {Obj(<< Entry("a", v) >>) : v \in PropValues}
    \cup {Obj(<< Entry("a", v), Entry("b", w) >>) : v \in PropValues, w \in SecondValues}
    \cup {Obj(<< Entry("b", w), Entry("a", v) >>) : v \in SecondValues, w \in SecondValues}
    \cup {Obj(<< Entry("0", Num("2")) >>),
          Obj(<< Entry("1", Num("1")), Entry("b", Obj(<< Entry("d", Num("2")) >>)) >>),
          Obj(<< Entry("0", Num("1")), Entry("1", Null) >>)}

InitMerge ==
    /\ defaultValues = Obj(<<>>)
    /\ overrides = NoOverrides
    /\ runtimeConfigs = <<>>
    /\ defaultLog = <<>>
    /\ setLog = [envId \in EnvIds |-> <<>>]
    /\ lastGet = NoGet
    /\ runtimeLog = <<>>
    /\ hierarchyCall = NoHierarchy
    /\ instance = NoInstance
    /\ constructs = NoConstructs
    /\ returned = NoReturn
    /\ NoPackages
    /\ \E original \in MergeObjects, override \in MergeObjects :
          mergeCall = [NoMerge EXCEPT !.original = original, !.override = override]

\* deepMerge(original, override) returns.
callDeepMerge ==
    /\ ~mergeCall.called
    /\ ~deepMergeThrows(mergeCall.original, mergeCall.override)
    /\ mergeCall' =
          [called |-> TRUE,
           original |-> mergeCall.original,
           override |-> mergeCall.override,
           result |-> deepMerge(mergeCall.original, mergeCall.override),
           originalAfter |-> deepMergeOriginalAfter(mergeCall.original, mergeCall.override),
           overrideAfter |-> deepMergeOverrideAfter(mergeCall.original, mergeCall.override)]
    /\ UNCHANGED <<defaultValues, overrides, runtimeConfigs, defaultLog, setLog, lastGet,
                   runtimeLog, hierarchyCall, instance, constructs, returned,
                   packages>>

NextMerge == callDeepMerge

SpecMerge == InitMerge /\ [][NextMerge]_vars

(* ------------------------------------------------------------------ *)
(* getEnvironmentHierarchy called directly                            *)
(* ------------------------------------------------------------------ *)

\* Every string over 'a', 'b' and '/' of up to MaxLen characters: '', '/',
\* 'a//b' and '/a/' among them.
HierarchyIds == UNION {[1..n -> {"a", "b", "/"}] : n \in 0..MaxLen}

InitHierarchy ==
    /\ defaultValues = Obj(<<>>)
    /\ overrides = NoOverrides
    /\ runtimeConfigs = <<>>
    /\ defaultLog = <<>>
    /\ setLog = [envId \in EnvIds |-> <<>>]
    /\ lastGet = NoGet
    /\ mergeCall = NoMerge
    /\ runtimeLog = <<>>
    /\ instance = newCdkConfig(ZodObject(simpleSchema), Omitted)
    /\ constructs = NoConstructs
    /\ returned = this
    /\ NoPackages
    /\ \E envId \in HierarchyIds :
          hierarchyCall = [NoHierarchy EXCEPT !.envId = envId]

\* getEnvironmentHierarchy(envId) returns.
callGetEnvironmentHierarchy ==
    /\ ~hierarchyCall.called
    /\ hierarchyCall' =
          [called |-> TRUE,
           envId |-> hierarchyCall.envId,
           segments |-> getEnvironmentHierarchy(hierarchyCall.envId)]
    /\ UNCHANGED <<defaultValues, overrides, runtimeConfigs, defaultLog, setLog, lastGet,
                   mergeCall, runtimeLog, instance, constructs, returned, packages>>

NextHierarchy == callGetEnvironmentHierarchy

SpecHierarchy == InitHierarchy /\ [][NextHierarchy]_vars

(* ------------------------------------------------------------------ *)
(* The resolver in an application: constructor, construct tree, get   *)
(* ------------------------------------------------------------------ *)

\* The env ids set in the context of constructs.
ContextEnvIds == { <<"a">>, <<"a", "/", "b">> }

\* What get is called with: a construct of the tree or an env id.
Contexts == {Construct(node) : node \in Nodes} \cup ContextEnvIds

InitContext ==
    /\ defaultValues = Obj(<<>>)
    /\ overrides = NoOverrides
    /\ runtimeConfigs = <<>>
    /\ defaultLog = <<>>
    /\ setLog = [envId \in EnvIds |-> <<>>]
    /\ lastGet = NoGet
    /\ mergeCall = NoMerge
    /\ runtimeLog = <<>>
    /\ hierarchyCall = NoHierarchy
    /\ instance = NoInstance
    /\ constructs = NoConstructs
    /\ returned = NoReturn
    /\ NoPackages

\* new CdkConfig(schemaArg, mergeFnArg): the expression's value is the new
\* instance, unless the constructor threw.
constructor(schemaArg, mergeFnArg) ==
    /\ instance.state = "none"
    /\ instance' = newCdkConfig(schemaArg, mergeFnArg)
    /\ defaultValues' = Obj(<<>>)
    /\ overrides' = NoOverrides
    /\ runtimeConfigs' = <<>>
    /\ returned' = IF constructorThrows(schemaArg) THEN NoReturn ELSE this
    /\ UNCHANGED <<defaultLog, setLog, lastGet, mergeCall, runtimeLog, hierarchyCall,
                   constructs, packages>>

\* new TestConstruct(scope, id): the construct is added to its scope.
newConstruct(node) ==
    /\ ~constructs[node].created
    /\ IF scopeOf(node) = "" THEN TRUE ELSE constructs[scopeOf(node)].created
    /\ constructs' = [constructs EXCEPT ![node].created = TRUE]
    /\ lastGet' = NoGet
    /\ UNCHANGED <<defaultValues, overrides, runtimeConfigs, defaultLog, setLog,
                   mergeCall, runtimeLog, hierarchyCall, instance, returned,
                   packages>>

\* setEnvContext(scope, envId): scope.node.setContext(ENV_CONTEXT_KEY, envId),
\* which throws and sets nothing once scope has children.
setEnvContext(scope, envId) ==
    /\ constructs[scope].created
    /\ IF setContextThrows(constructs, scope)
       THEN UNCHANGED <<constructs, lastGet>>
       ELSE /\ constructs' = [constructs EXCEPT
                                 ![scope].context = [set |-> TRUE, envId |-> envId]]
            /\ lastGet' = NoGet
    /\ UNCHANGED <<defaultValues, overrides, runtimeConfigs, defaultLog, setLog,
                   mergeCall, runtimeLog, hierarchyCall, instance, returned,
                   packages>>

NextContext ==
    \/ \E schemaArg \in Schemas : constructor(schemaArg, Omitted)
    \/ instance.state = "CdkConfig" /\ set(<<"a">>, fragApp)
    \/ instance.state = "CdkConfig" /\ addRuntime("rtEnv")
    \/ \E node \in Nodes : newConstruct(node)
    \/ \E scope \in Nodes, envId \in ContextEnvIds : setEnvContext(scope, envId)
    \/ \E context \in Contexts :
          /\ instance.state = "CdkConfig"
          /\ IsConstruct(context) => constructs[context[2]].created
          /\ get(context)

SpecContext == InitContext /\ [][NextContext]_vars

(* ------------------------------------------------------------------ *)
(* The resolution order, stated from the specification                *)
(* ------------------------------------------------------------------ *)

\* key is a prefix of envId that ends at a '/' boundary of it, or envId itself.
OnChain(key, envId) ==
    /\ Len(key) <= Len(envId)
    /\ SubSeq(envId, 1, Len(key)) = key
    /\ (Len(key) = Len(envId) \/ envId[Len(key) + 1] = "/")

\* The ancestor chain of envId, root-most first.
ChainOf(envId) ==
    LET lens == SelectSeq([i \in 1..Len(envId) + 1 |-> i - 1],
                          LAMBDA n : n = Len(envId) \/ envId[n + 1] = "/")
    IN  [j \in 1..Len(lens) |-> SubSeq(envId, 1, lens[j])]

\* The overrides registered on the chain of envId, root-most first.
ChainOverrides(ovr, envId) ==
    LET registered == SelectSeq(ChainOf(envId), LAMBDA key : key \in DOMAIN ovr)
    IN  [j \in 1..Len(registered) |-> ovr[registered[j]]]

RECURSIVE FoldMerge(_, _, _)
\* The left fold of deepMerge over layers[i..], starting from acc.
FoldMerge(layers, i, acc) ==
    IF i > Len(layers) THEN acc
    ELSE FoldMerge(layers, i + 1, deepMerge(acc, layers[i]))

RECURSIVE RuntimeOutputs(_, _, _, _)
\* The output of each runtime function from rts[i] on, each called with the
\* env id and the accumulator that holds the outputs before it.
RuntimeOutputs(rts, envId, i, acc) ==
    IF i > Len(rts) THEN <<>>
    ELSE LET out == runtimeConfigFn(rts[i], envId, acc)
         IN  <<out>> \o RuntimeOutputs(rts, envId, i + 1, deepMerge(acc, out))

\* The accumulator after the default fragment and the chain's overrides.
PathConfig(envId) ==
    FoldMerge(ChainOverrides(overrides, envId), 1, defaultValues)

\* default, chain overrides root-most first, runtime outputs in registration order.
Layers(envId) ==
    <<defaultValues>> \o ChainOverrides(overrides, envId)
    \o RuntimeOutputs(runtimeConfigs, envId, 1, PathConfig(envId))

ExpectedConfig(envId) ==
    LET layers == Layers(envId) IN FoldMerge(layers, 2, layers[1])

\* On a key whose last mention in the layers is not a mapping, that value wins.
LaterWins(envId, acc) ==
    LET layers == Layers(envId)
    IN  \A j \in 1..Len(layers) : \A n \in 1..Len(layers[j].m) :
            LET key == layers[j].m[n].key
                val == layers[j].m[n].val
            IN  (/\ ~IsPlainObject(val)
                 /\ \A later \in (j + 1)..Len(layers) : ~hasOwnProperty(layers[later], key))
                => (hasOwnProperty(acc, key) /\ Prop(acc, key) = val)

RuntimeCalls == SelectSeq(lastGet.steps, LAMBDA step : step.fn # "")
SegmentSteps == SelectSeq(lastGet.steps, LAMBDA step : step.fn = "")

(* ------------------------------------------------------------------ *)
(* Claims                                                             *)
(* ------------------------------------------------------------------ *)

\* C1: the accumulator get hands to the schema is the left fold of the merge
\* over the default fragment, the overrides registered on the target's
\* ancestor chain from root-most to the target itself, and each runtime
\* function's output in registration order; on a conflicting key the later
\* layer's value wins, whatever the order of the set / setDefault calls was.
C1_ResolutionOrder ==
    lastGet.called =>
        /\ lastGet.outcome.status # "TypeError"
        /\ lastGet.mergedConfig = ExpectedConfig(lastGet.envId)
        /\ LaterWins(lastGet.envId, lastGet.mergedConfig)

\* get('a/b') with { name: 'svc', .. } at 'a', { name: 'app', .. } at 'a/b' and
\* rtSuffix registered: the more specific name wins, and the runtime's over it.
C1_Witness ==
    /\ lastGet.called
    /\ lastGet.envId = <<"a", "/", "b">>
    /\ overridesAt(overrides, <<"a">>) = fragSvc
    /\ overridesAt(overrides, <<"a", "/", "b">>) = fragApp
    /\ runtimeConfigs = <<"rtSuffix">>
    /\ Prop(lastGet.mergedConfig, "name") = Str("app-dev")
    /\ Prop(lastGet.mergedConfig, "version") = Str("1.0")

RequiredMissing(field, acc) ==
    ~field.optional /\ ~field.hasDefault /\ Prop(acc, field.key).k = "undef"

\* A field whose value in the accumulator is not of the declared type.
WrongTyped(field, acc) ==
    Prop(acc, field.key).k # "undef" /\ TypeOf(Prop(acc, field.key)) # field.type

Offending(acc) ==
    {i \in 1..Len(schema) : RequiredMissing(schema[i], acc) \/ WrongTyped(schema[i], acc)}

\* value conforms to the schema.
Conforms(value) ==
    /\ value.k = "obj"
    /\ \A n \in 1..Len(value.m) : \E i \in 1..Len(schema) : schema[i].key = value.m[n].key
    /\ \A i \in 1..Len(schema) :
          \/ TypeOf(Prop(value, schema[i].key)) = schema[i].type
          \/ schema[i].optional /\ Prop(value, schema[i].key).k = "undef"

\* C3: get either returns a configuration that conforms to the schema or
\* raises a validation error; whenever the final accumulator lacks a required
\* field or holds a wrong-typed value, get raises, naming the field, and
\* returns no partial, recovered or fallback result.
C3_ValidOrRaises ==
    lastGet.called =>
        /\ \/ lastGet.outcome.status = "ok" /\ Conforms(lastGet.outcome.value)
           \/ lastGet.outcome.status = "ZodError" /\ lastGet.outcome.value = Undef
        /\ Offending(lastGet.mergedConfig) # {} =>
              /\ lastGet.outcome.status = "ZodError"
              /\ lastGet.outcome.value = Undef
              /\ \A i \in Offending(lastGet.mergedConfig) :
                    \E n \in 1..Len(lastGet.outcome.issues) :
                        lastGet.outcome.issues[n] = <<schema[i].key>>

\* A valid name from the override at 'a', then rtBad's number over it: get raises.
C3_Witness ==
    /\ lastGet.called
    /\ Prop(PathConfig(lastGet.envId), "name") = Str("svc")
    /\ Len(RuntimeCalls) = 1
    /\ RuntimeCalls[1].fn = "rtBad"
    /\ Prop(lastGet.mergedConfig, "name") = Num("123")
    /\ lastGet.outcome.status = "ZodError"
    /\ lastGet.outcome.issues = << <<"name">> >>

\* The overrides registered on the chain of envId, and no others.
RestrictToChain(ovr, envId) ==
    [key \in {k \in DOMAIN ovr : OnChain(k, envId)} |-> ovr[key]]

\* C4: an override registered at key k contributes to get(p) only when k is p
\* or a prefix of p ending at a '/' boundary: the result is the one the
\* resolver gives with every other override (sibling, descendant, string
\* prefix not at a boundary) removed.
C4_OnlyChainContributes ==
    lastGet.called =>
        /\ \A n \in 1..Len(SegmentSteps) : OnChain(SegmentSteps[n].segment, lastGet.envId)
        /\ \E r \in {resolve(defaultValues, RestrictToChain(overrides, lastGet.envId),
                             runtimeConfigs, lastGet.envId)} :
              /\ lastGet.mergedConfig = r.mergedConfig
              /\ lastGet.outcome = r.outcome

\* get('a/bc') with overrides at 'a' and at 'a/b', a sibling of 'a/bc' and a
\* prefix of it that does not end at a '/': the name is the one from 'a'.
C4_Witness ==
    /\ lastGet.called
    /\ lastGet.envId = <<"a", "/", "b", "c">>
    /\ overridesAt(overrides, <<"a">>) = fragSvc
    /\ overridesAt(overrides, <<"a", "/", "b">>) = fragApp
    /\ lastGet.outcome.status = "ok"
    /\ Prop(lastGet.outcome.value, "name") = Str("svc")
    /\ ~hasOwnProperty(lastGet.outcome.value, "version")

\* C5: get does not require any key of the target's chain to be registered:
\* keys with no override are skipped without error (one merge step per
\* registered chain key, none for the others), and with no chain key
\* registered the result reflects the default and the runtime functions only.
C5_UnsetSegmentsSkipped ==
    lastGet.called =>
        /\ lastGet.outcome.status \in {"ok", "ZodError"}
        /\ Len(SegmentSteps) = Len(ChainOverrides(overrides, lastGet.envId))
        /\ \A n \in 1..Len(SegmentSteps) : SegmentSteps[n].segment \in DOMAIN overrides
        /\ ChainOverrides(overrides, lastGet.envId) = <<>> =>
              lastGet.mergedConfig =
                  FoldMerge(RuntimeOutputs(runtimeConfigs, lastGet.envId, 1, defaultValues),
                            1, defaultValues)

\* get('a/b/c') with overrides at 'a' and 'a/b/c' and none at 'a/b' succeeds
\* with both contributions.
C5_Witness ==
    /\ lastGet.called
    /\ lastGet.envId = <<"a", "/", "b", "/", "c">>
    /\ <<"a">> \in DOMAIN overrides
    /\ <<"a", "/", "b">> \notin DOMAIN overrides
    /\ overridesAt(overrides, <<"a">>) = fragApp
    /\ overridesAt(overrides, <<"a", "/", "b", "/", "c">>) = fragSvc
    /\ lastGet.outcome.status = "ok"
    /\ Len(SegmentSteps) = 2
    /\ Prop(lastGet.outcome.value, "name") = Str("svc")
    /\ Prop(lastGet.outcome.value, "version") = Str("1.0")

\* The last two set calls on key k: the override P they found, and their
\* fragments A and B.
LastTwoSets(k) ==
    LET n == Len(setLog[k])
    IN  [P |-> setLog[k][n - 1].before, A |-> setLog[k][n - 1].values,
         B |-> setLog[k][n].values, afterA |-> setLog[k][n].before]

\* The override of k after a single set(k, values) on a resolver whose
\* override for k is P (undefined: none registered).
SingleSet(P, k, values) ==
    setOverrides(IF P = Undef THEN NoOverrides ELSE [key \in {k} |-> P], k, values)[k]

RECURSIVE MappingGap(_, _, _)
\* Some key, reached through mappings common to P, A and B, holds a mapping in
\* P and in B and a value that is not a mapping in A.
MappingGap(P, A, B) ==
    \E n \in 1..Len(A.m) :
        LET key == A.m[n].key
        IN  /\ IsPlainObject(Prop(P, key))
            /\ IsPlainObject(Prop(B, key))
            /\ (IsPlainObject(A.m[n].val) =>
                   MappingGap(Prop(P, key), A.m[n].val, Prop(B, key)))

\* C6 as stated: set(k, A) then set(k, B) leaves the same registered override
\* for k as a single set(k, deepMerge(A, B)), for any fragments A and B.
C6_AsStated ==
    \A k \in EnvIds :
        Len(setLog[k]) >= 2 =>
            LET t == LastTwoSets(k)
            IN  overridesAt(overrides, k) = SingleSet(t.P, k, deepMerge(t.A, t.B))

\* C6, amended: set(k, A) then set(k, B) leaves the same registered override
\* for k as a single set(k, deepMerge(A, B)) when k had no override before the
\* two calls, or when no key holds a mapping in the earlier override and in B
\* but a value that is not a mapping in A; in every case the keys given only
\* in A keep, after the second call, the value the first call left them.
C6_CumulativeSet ==
    \A k \in EnvIds :
        Len(setLog[k]) >= 2 =>
            LET t == LastTwoSets(k)
            IN  /\ (t.P = Undef \/ ~MappingGap(t.P, t.A, t.B)) =>
                       overridesAt(overrides, k) = SingleSet(t.P, k, deepMerge(t.A, t.B))
                /\ \A n \in 1..Len(t.A.m) :
                       LET key == t.A.m[n].key
                       IN  /\ hasOwnProperty(overrides[k], key)
                           /\ ~hasOwnProperty(t.B, key) =>
                                  Prop(overrides[k], key) = Prop(t.afterA, key)

\* set('a', { name: 'app', version, tags: { Owner } }) then
\* set('a', { name: 'svc', tags: { Team } }): version, given only in the first,
\* survives, and the override is the merge of the two.
C6_Witness ==
    /\ Len(setLog[<<"a">>]) = 2
    /\ setLog[<<"a">>][1].before = Undef
    /\ setLog[<<"a">>][1].values = fragApp
    /\ setLog[<<"a">>][2].values = fragSvc
    /\ Prop(overrides[<<"a">>], "version") = Str("1.0")
    /\ Prop(overrides[<<"a">>], "name") = Str("svc")
    /\ overrides[<<"a">>] = deepMerge(fragApp, fragSvc)

RECURSIVE NullishKept(_, _, _)
\* Every key of override whose value is null or undefined holds that same
\* value in result, at every depth that is merged recursively.
NullishKept(original, override, result) ==
    \A n \in 1..Len(override.m) :
        LET key == override.m[n].key
            val == override.m[n].val
        IN  /\ IsNullish(val) => (hasOwnProperty(result, key) /\ Prop(result, key) = val)
            /\ (IsPlainObject(val) /\ IsPlainObject(Prop(original, key))) =>
                   NullishKept(Prop(original, key), val, Prop(result, key))

C8_NullishOverrideWins ==
    lastGet.called =>
        LET chain == ChainOverrides(overrides, lastGet.envId)
            outputs == RuntimeOutputs(runtimeConfigs, lastGet.envId, 1,
                                      PathConfig(lastGet.envId))
        IN  \A j \in 1..Len(chain) : \A n \in 1..Len(chain[j].m) :
                LET field == chain[j].m[n].key
                    val == chain[j].m[n].val
                IN  (/\ IsNullish(val)
                     /\ \A later \in (j + 1)..Len(chain) : ~hasOwnProperty(chain[later], field)
                     /\ \A i \in 1..Len(outputs) : ~hasOwnProperty(outputs[i], field))
                    => (/\ hasOwnProperty(lastGet.mergedConfig, field)
                        /\ Prop(lastGet.mergedConfig, field) = val)

\* Default { name: 'svc', tags }, 'a' { name: 'app', .. }, 'a/b' { name: null,
\* tags: undefined }: get('a/b') hands name null and tags undefined to the schema.
C8_Witness ==
    /\ lastGet.called
    /\ lastGet.envId = <<"a", "/", "b">>
    /\ defaultValues = fragSvc
    /\ overridesAt(overrides, <<"a">>) = fragApp
    /\ overridesAt(overrides, <<"a", "/", "b">>) = fragErase
    /\ Prop(lastGet.mergedConfig, "name") = Null
    /\ hasOwnProperty(lastGet.mergedConfig, "tags")
    /\ Prop(lastGet.mergedConfig, "tags") = Undef
    /\ Prop(lastGet.mergedConfig, "version") = Str("1.0")

\* The resolver as the mutator calls left it, from the log of those calls.
BuiltDefault ==
    IF defaultLog = <<>> THEN Obj(<<>>) ELSE defaultLog[Len(defaultLog)]
BuiltOverrides ==
    [k \in {e \in EnvIds : setLog[e] # <<>>} |->
        LET last == setLog[k][Len(setLog[k])]
        IN  SingleSet(last.before, k, last.values)]

\* C9: get never changes resolver state: a get step, whether it returns or
\* raises, leaves the default fragment, every override and the runtime list
\* as they were; so after any number of gets the resolver is as the mutator
\* calls left it, and each get has the outcome it would have alone.
C9_GetReadOnly ==
    /\ [][lastGet'.called =>
            UNCHANGED <<defaultValues, overrides, runtimeConfigs>>]_vars
    /\ [](lastGet.called =>
            /\ defaultValues = BuiltDefault
            /\ overrides = BuiltOverrides
            /\ lastGet.outcome =
                  resolve(BuiltDefault, BuiltOverrides, runtimeConfigs,
                          lastGet.envId).outcome)

\* A get that merged the default, an override and a runtime output, and raised.
C9_Witness ==
    /\ lastGet.called
    /\ defaultValues = fragSvc
    /\ Len(SegmentSteps) = 1
    /\ Len(RuntimeCalls) = 1
    /\ lastGet.outcome.status = "ZodError"

\* C10: resolving the same env id twice with no setDefault / set / addRuntime
\* call in between yields equal results.
C10_RepeatedGet ==
    (lastGet.called /\ lastGet.previous.status # "none") =>
        lastGet.outcome = lastGet.previous

\* A second get of the same env id, after a first that merged an override and
\* a runtime output and returned a configuration.
C10_Witness ==
    /\ lastGet.called
    /\ lastGet.previous.status = "ok"
    /\ Len(SegmentSteps) >= 1
    /\ Len(RuntimeCalls) >= 1
    /\ Prop(lastGet.outcome.value, "name") = Str("svc-dev")

\* No layer of the resolution of envId (default fragment, chain overrides,
\* runtime outputs) has the key.
NoLayerProvides(envId, key) ==
    LET layers == Layers(envId)
    IN  \A j \in 1..Len(layers) : ~hasOwnProperty(layers[j], key)

\* C11: for a field with a schema-declared default, get returns the schema
\* default when no step of the resolution (default fragment, registered
\* ancestor overrides, runtime functions) provides the field, and the absent
\* field is never reported as an error; when the resolution leaves a value
\* for the field, that value is returned instead of the schema default (a
\* field left undefined by the resolution counts as not provided).
C11_SchemaDefault ==
    lastGet.called =>
        \A i \in 1..Len(schema) :
            schema[i].hasDefault =>
                LET key == schema[i].key
                    given == Prop(lastGet.mergedConfig, key)
                    ok == lastGet.outcome.status = "ok"
                IN  /\ NoLayerProvides(lastGet.envId, key) =>
                          /\ given = Undef
                          /\ \A n \in 1..Len(lastGet.outcome.issues) :
                                 lastGet.outcome.issues[n] # <<key>>
                    /\ (ok /\ given = Undef) =>
                          Prop(lastGet.outcome.value, key) = schema[i].dflt
                    /\ (ok /\ given # Undef) =>
                          Prop(lastGet.outcome.value, key) = given

\* set('a', fragApp), no isEnabled anywhere: get('a/b') returns isEnabled: true.
C11_Witness ==
    /\ lastGet.called
    /\ lastGet.envId = <<"a", "/", "b">>
    /\ defaultValues = Obj(<<>>)
    /\ overridesAt(overrides, <<"a">>) = fragApp
    /\ NoLayerProvides(lastGet.envId, "isEnabled")
    /\ lastGet.outcome.status = "ok"
    /\ Prop(lastGet.outcome.value, "isEnabled") = Bool("true")
    /\ Prop(lastGet.outcome.value, "name") = Str("app")

\* The keys of the earlier default fragments that the current one lacks.
DroppedDefaultKeys ==
    {key \in {"name", "version", "isEnabled", "tags", "features"} :
        /\ \E j \in 1..Len(defaultLog) - 1 : hasOwnProperty(defaultLog[j], key)
        /\ ~hasOwnProperty(defaultLog[Len(defaultLog)], key)}

\* C12: setDefault replaces the default fragment wholesale: the default
\* fragment is exactly the fragment of the last setDefault call (the empty
\* object before the first), resolution starts from it, and a key that only
\* earlier default fragments had, and that no override of the chain and no
\* runtime function provides, is in no accumulator and in no get result
\* (other than as the schema's own default).
C12_SetDefaultReplaces ==
    /\ defaultValues =
          IF Len(defaultLog) = 0 THEN Obj(<<>>) ELSE defaultLog[Len(defaultLog)]
    /\ (lastGet.called /\ Len(defaultLog) >= 1) =>
          /\ Layers(lastGet.envId)[1] = defaultLog[Len(defaultLog)]
          /\ LET layers == Layers(lastGet.envId)
             IN  \A key \in DroppedDefaultKeys :
                    (\A j \in 2..Len(layers) : ~hasOwnProperty(layers[j], key)) =>
                        /\ ~hasOwnProperty(lastGet.mergedConfig, key)
                        /\ lastGet.outcome.status = "ok" =>
                              \/ ~hasOwnProperty(lastGet.outcome.value, key)
                              \/ \E i \in 1..Len(schema) :
                                    /\ schema[i].key = key
                                    /\ schema[i].hasDefault
                                    /\ Prop(lastGet.outcome.value, key) = schema[i].dflt

\* setDefault(fragApp) then setDefault(fragSvc), no override: get('a') has
\* no version and only fragSvc's tags.
C12_Witness ==
    /\ defaultLog = <<fragApp, fragSvc>>
    /\ lastGet.called
    /\ lastGet.envId = <<"a">>
    /\ lastGet.steps = <<>>
    /\ "version" \in DroppedDefaultKeys
    /\ lastGet.mergedConfig = fragSvc
    /\ lastGet.outcome.status = "ok"
    /\ ~hasOwnProperty(lastGet.outcome.value, "version")

\* C13: addRuntime only ever appends: after n addRuntime calls the runtime
\* list holds exactly the n functions passed, in call order (none replaced,
\* removed, reordered or deduplicated), and every get runs each entry of the
\* list once, in that order, so a function registered twice runs twice.
C13_AddRuntimeAppends ==
    /\ runtimeConfigs = runtimeLog
    /\ lastGet.called =>
          /\ Len(RuntimeCalls) = Len(runtimeLog)
          /\ \A i \in 1..Len(RuntimeCalls) : RuntimeCalls[i].fn = runtimeLog[i]

\* addRuntime(rtSuffix) twice over set('a', fragSvc): get('a') runs it twice
\* and the name is 'svc-dev-dev'.
C13_Witness ==
    /\ runtimeLog = <<"rtSuffix", "rtSuffix">>
    /\ Len(runtimeConfigs) = 2
    /\ lastGet.called
    /\ Len(RuntimeCalls) = 2
    /\ RuntimeCalls[1].fn = "rtSuffix" /\ RuntimeCalls[2].fn = "rtSuffix"
    /\ Prop(lastGet.mergedConfig, "name") = Str("svc-dev-dev")

\* The set of own keys of an object.
KeySet(v) == {v.m[n].key : n \in 1..Len(v.m)}

RECURSIVE MergedByRules(_, _, _)
\* result has exactly the union of the keys of original and override, each
\* once; a key absent from override holds original's value, a key absent
\* from original holds override's value, and a key that holds a plain mapping
\* on both sides holds their merge by the same rules.
MergedByRules(original, override, result) ==
    /\ result.k = "obj"
    /\ KeySet(result) = KeySet(original) \cup KeySet(override)
    /\ Len(result.m) = Cardinality(KeySet(result))
    /\ \A key \in KeySet(result) :
          /\ ~hasOwnProperty(override, key) => Prop(result, key) = Prop(original, key)
          /\ ~hasOwnProperty(original, key) => Prop(result, key) = Prop(override, key)
          /\ (/\ hasOwnProperty(original, key) /\ hasOwnProperty(override, key)
              /\ IsPlainObject(Prop(original, key))
              /\ IsPlainObject(Prop(override, key))) =>
                 MergedByRules(Prop(original, key), Prop(override, key),
                               Prop(result, key))

\* C14: for mappings base and override, the result of deepMerge has exactly
\* the union of their keys: a key absent from override keeps base's value, a
\* key absent from base takes override's value, and a key whose value is a
\* plain mapping on both sides is merged recursively by the same rules at
\* every nesting depth.
C14_UnionOfKeys ==
    mergeCall.called =>
        MergedByRules(mergeCall.original, mergeCall.override, mergeCall.result)

\* deepMerge({ a: { c: { e: 1 }, d: 1 }, b: 2 }, { a: { c: { e: null } } }):
\* b and a.d are kept from the base, a.c is merged two levels down.
C14_Witness ==
    /\ mergeCall.called
    /\ mergeCall.original =
          Obj(<< Entry("a", Obj(<< Entry("c", Obj(<< Entry("e", Num("1")) >>)),
                                   Entry("d", Num("1")) >>)),
                 Entry("b", Num("2")) >>)
    /\ mergeCall.override =
          Obj(<< Entry("a", Obj(<< Entry("c", Obj(<< Entry("e", Null) >>)) >>)) >>)
    /\ mergeCall.result =
          Obj(<< Entry("a", Obj(<< Entry("c", Obj(<< Entry("e", Null) >>)),
                                   Entry("d", Num("1")) >>)),
                 Entry("b", Num("2")) >>)

RECURSIVE ReplacedWholesale(_, _, _)
\* On every key that both sides have, with an override value that is not
\* null or undefined: unless both values are plain mappings, result holds
\* the override's value itself; where both are, the same holds one level down.
ReplacedWholesale(original, override, result) ==
    \A key \in KeySet(original) \cap KeySet(override) :
        LET originalValue == Prop(original, key)
            overrideValue == Prop(override, key)
        IN  ~IsNullish(overrideValue) =>
                IF IsPlainObject(originalValue) /\ IsPlainObject(overrideValue)
                THEN ReplacedWholesale(originalValue, overrideValue, Prop(result, key))
                ELSE Prop(result, key) = overrideValue

\* The layers of the resolution of envId that hold an array at key.
ArrayLayers(envId, key) ==
    LET layers == Layers(envId)
    IN  {j \in 1..Len(layers) : Prop(layers[j], key).k = "arr"}

\* C15: in deepMerge, when a key is present on both sides with an override
\* value that is not null or undefined and the two values are not both plain
\* mappings (scalar, array, mismatched kinds), the override's value replaces
\* the base's wholesale; an array is never merged element-wise or
\* concatenated, so in get the array of the last layer that mentions the key
\* is the accumulator's value, whatever arrays less specific layers hold.
C15_ReplacedWholesale ==
    lastGet.called =>
        /\ \A n \in 1..Len(lastGet.steps) :
              ReplacedWholesale(lastGet.steps[n].original, lastGet.steps[n].override,
                                lastGet.steps[n].result)
        /\ LET layers == Layers(lastGet.envId)
           IN  \A key \in {"tags", "features"} : \A j \in 1..Len(layers) :
                   (/\ Prop(layers[j], key).k = "arr"
                    /\ \A later \in (j + 1)..Len(layers) :
                           ~hasOwnProperty(layers[later], key))
                   => Prop(lastGet.mergedConfig, key) = Prop(layers[j], key)

\* set('a', fragApp) with features ['api', 'backend'], set('a/b', fragSvc)
\* with features ['staging']: get('a/b') merges both and features is
\* ['staging'].
C15_Witness ==
    /\ lastGet.called
    /\ lastGet.envId = <<"a", "/", "b">>
    /\ overridesAt(overrides, <<"a">>) = fragApp
    /\ overridesAt(overrides, <<"a", "/", "b">>) = fragSvc
    /\ Len(SegmentSteps) = 2
    /\ Prop(SegmentSteps[2].original, "features") = Prop(fragApp, "features")
    /\ Cardinality(ArrayLayers(lastGet.envId, "features")) = 2
    /\ Prop(lastGet.mergedConfig, "features") = Arr(<< Entry("0", Str("staging")) >>)
    /\ Prop(lastGet.mergedConfig, "name") = Str("svc")

Separators(envId) == Cardinality({i \in 1..Len(envId) : envId[i] = "/"})

\* x is a prefix of y.
IsPrefix(x, y) == Len(x) <= Len(y) /\ SubSeq(y, 1, Len(x)) = x

\* C17: the hierarchy expansion of a key with n '/' separators returns
\* exactly n + 1 keys from least to most specific: the i-th is the first i
\* segments joined by '/' (the key up to its i-th separator), each is a
\* prefix of the next, and the last is the key itself; a key with no
\* separator yields the single-element sequence containing itself.
C17_HierarchyExpansion ==
    hierarchyCall.called =>
        LET envId == hierarchyCall.envId
            segments == hierarchyCall.segments
        IN  /\ Len(segments) = Separators(envId) + 1
            /\ segments = ChainOf(envId)
            /\ \A i \in 1..Len(segments) :
                  /\ Separators(segments[i]) = i - 1
                  /\ OnChain(segments[i], envId)
            /\ \A i \in 1..Len(segments) - 1 :
                  /\ IsPrefix(segments[i], segments[i + 1])
                  /\ Len(segments[i]) < Len(segments[i + 1])
            /\ segments[Len(segments)] = envId
            /\ Separators(envId) = 0 => segments = <<envId>>

\* getEnvironmentHierarchy('a/b/a') returns ['a', 'a/b', 'a/b/a'].
C17_Witness ==
    /\ hierarchyCall.called
    /\ hierarchyCall.envId = <<"a", "/", "b", "/", "a">>
    /\ hierarchyCall.segments =
          << <<"a">>, <<"a", "/", "b">>, <<"a", "/", "b", "/", "a">> >>

\* No method of a resolver has run.
NoMethodRan ==
    /\ defaultLog = <<>>
    /\ runtimeLog = <<>>
    /\ \A k \in EnvIds : setLog[k] = <<>>
    /\ ~lastGet.called
    /\ defaultValues = Obj(<<>>) /\ overrides = NoOverrides /\ runtimeConfigs = <<>>

\* C18: constructing a resolver around a schema that is not an object schema
\* fails in the constructor: an instance only ever exists around an object
\* schema, which it holds as its schema; after the constructor threw there
\* is no instance and no set or get ever runs, so the rejection is not
\* deferred to the first get.
C18_EagerSchemaCheck ==
    /\ instance.state = "CdkConfig" =>
          /\ instance.arg.type = "ZodObject"
          /\ instance.schema = instance.arg
    /\ (instance.state # "none" /\ instance.arg.type # "ZodObject") =>
          /\ instance.state = "Error"
          /\ instance.error = "Schema must be a Zod object"
          /\ NoMethodRan
    /\ instance.state = "none" => NoMethodRan

\* new CdkConfig(z.string()) threw; the application went on to build its
\* construct tree, and no resolver method has run.
C18_Witness ==
    /\ instance.state = "Error"
    /\ instance.arg = ZodString
    /\ instance.error = "Schema must be a Zod object"
    /\ constructs["root"].created /\ constructs["child1"].created
    /\ NoMethodRan

RECURSIVE AncestorsOrSelf(_)
\* The construct and the constructs on its path to the root.
AncestorsOrSelf(node) ==
    IF scopeOf(node) = "" THEN {node} ELSE {node} \cup AncestorsOrSelf(scopeOf(node))

\* The env id set on the nearest construct on the path from node to the
\* root, node itself first; the lookup's Error when none has one.
NearestEnvId(node) ==
    LET holders == {n \in AncestorsOrSelf(node) : constructs[n].context.set}
    IN  IF holders = {} THEN NoContextError
        ELSE constructs[CHOOSE n \in holders :
                            \A h \in holders : h \in AncestorsOrSelf(n)].context.envId

\* C19: getEnvId returns a literal env id unchanged, and for a construct the
\* env id set on the nearest construct on its path to the root, itself first
\* (so an env id set on a construct is seen by that construct and its
\* descendants only, never by its parent or its siblings); get(construct)
\* resolves exactly as get of that env id.
C19_GetEnvId ==
    /\ \A envId \in EnvIds : getEnvId(envId) = envId
    /\ \A node \in Nodes :
          constructs[node].created => getEnvId(Construct(node)) = NearestEnvId(node)
    /\ lastGet.called =>
          /\ lastGet.envId = getEnvId(lastGet.context)
          /\ lastGet.envId # NoContextError =>
                LET r == resolve(defaultValues, overrides, runtimeConfigs, lastGet.envId)
                IN  /\ lastGet.outcome = r.outcome
                    /\ lastGet.mergedConfig = r.mergedConfig
                    /\ lastGet.steps = r.steps

\* root has env id 'a', its child child2 has 'a/b', child1 and grandchild
\* have none: get(grandchild) resolves 'a' with the override set for 'a',
\* while child2 looks up 'a/b'.
C19_Witness ==
    /\ constructs["root"].context = [set |-> TRUE, envId |-> <<"a">>]
    /\ constructs["child2"].context = [set |-> TRUE, envId |-> <<"a", "/", "b">>]
    /\ ~constructs["child1"].context.set
    /\ constructs["grandchild"].created /\ ~constructs["grandchild"].context.set
    /\ getEnvId(Construct("child2")) = <<"a", "/", "b">>
    /\ getEnvId(Construct("root")) = <<"a">>
    /\ lastGet.called
    /\ lastGet.context = Construct("grandchild")
    /\ lastGet.envId = <<"a">>
    /\ overridesAt(overrides, <<"a">>) = fragApp
    /\ lastGet.outcome.status = "ok"
    /\ Prop(lastGet.outcome.value, "name") = Str("app")

\* C20: get(construct) for a construct with no env id set on itself or on
\* any ancestor raises the lookup's Error: no merge and no runtime function
\* runs, no accumulator is built and no configuration is returned; get
\* raises that Error in no other case.
C20_MissingEnvIdRaises ==
    lastGet.called =>
        /\ (IsConstruct(lastGet.context) /\ NearestEnvId(lastGet.context[2]) = NoContextError) =>
              /\ lastGet.outcome.status = "Error"
              /\ lastGet.outcome.value = Undef
              /\ lastGet.steps = <<>>
              /\ lastGet.mergedConfig = Undef
        /\ lastGet.outcome.status = "Error" =>
              /\ IsConstruct(lastGet.context)
              /\ \A n \in AncestorsOrSelf(lastGet.context[2]) : ~constructs[n].context.set

\* An override for 'a' and a runtime function are registered, root and child1
\* have no env id: get(child1) raises and nothing was merged.
C20_Witness ==
    /\ overridesAt(overrides, <<"a">>) = fragApp
    /\ runtimeConfigs = <<"rtEnv">>
    /\ constructs["child1"].created
    /\ ~constructs["root"].context.set /\ ~constructs["child1"].context.set
    /\ lastGet.called
    /\ lastGet.context = Construct("child1")
    /\ lastGet.outcome.status = "Error"
    /\ lastGet.steps = <<>>

(* ------------------------------------------------------------------ *)
(* The resolver set up by one chain of calls                          *)
(* ------------------------------------------------------------------ *)

\* simpleSchema with the tags the runtime example reads:
\* tags: z.record(z.string()).optional()
taggedSchema ==
    simpleSchema \o << Field("tags", "object", TRUE, FALSE, Undef) >>

FluentSchemas == {ZodObject(simpleSchema), ZodObject(taggedSchema)}

FluentFragments == {fragSvc, fragApp}

FluentRuntimeFns == {"rtSuffix", "rtEnv"}

InitFluent == InitContext

\* new CdkConfig(schema, mergeFn).setDefault(...).set(...).addRuntime(...):
\* each call of the chain is made on the value of the call before it, and
\* get on the value of the whole chain.
NextFluent ==
    \/ \E schemaArg \in FluentSchemas, mergeFnArg \in MergeFnArgs :
          constructor(schemaArg, mergeFnArg)
    \/ \E values \in FluentFragments : returned = this /\ setDefault(values)
    \/ \E envId \in ContextEnvIds, values \in FluentFragments :
          returned = this /\ set(envId, values)
    \/ \E configFn \in FluentRuntimeFns : returned = this /\ addRuntime(configFn)
    \/ \E context \in ContextEnvIds : returned = this /\ get(context)

SpecFluent == InitFluent /\ [][NextFluent]_vars

\* The call of the runtime example: get('a/b') on a resolver with an override
\* registered at 'a', the schema declaring tags, and the function returning
\* tags.Environment = envId the last one registered; the call returned.
RuntimeExample ==
    /\ lastGet.called
    /\ lastGet.envId = <<"a", "/", "b">>
    /\ <<"a">> \in DOMAIN overrides
    /\ instance.schema = ZodObject(taggedSchema)
    /\ Len(runtimeConfigs) > 0
    /\ runtimeConfigs[Len(runtimeConfigs)] = "rtEnv"
    /\ lastGet.outcome.status = "ok"

KeyIndex(v, key) == CHOOSE n \in 1..Len(v.m) : v.m[n].key = key

RECURSIVE InsertionOrder(_, _, _)
\* The keys of result are base's keys in base's order, followed by the keys
\* only override has in override's order, at this level and in every
\* property that holds a plain mapping on both sides.
InsertionOrder(original, override, result) ==
    /\ \A m, n \in 1..Len(result.m) :
          m < n =>
             LET first == result.m[m].key
                 second == result.m[n].key
             IN  IF hasOwnProperty(original, first)
                 THEN hasOwnProperty(original, second) =>
                         KeyIndex(original, first) < KeyIndex(original, second)
                 ELSE /\ ~hasOwnProperty(original, second)
                      /\ KeyIndex(override, first) < KeyIndex(override, second)
    /\ \A key \in KeySet(result) :
          (/\ IsPlainObject(Prop(original, key))
           /\ IsPlainObject(Prop(override, key))) =>
              InsertionOrder(Prop(original, key), Prop(override, key), Prop(result, key))

\* C22: the keys of deepMerge's result are in insertion order: all of base's
\* keys first, in base's order, followed by the keys that only override has,
\* in override's order, at every nesting depth that is merged recursively.
C22_InsertionOrder ==
    mergeCall.called =>
        InsertionOrder(mergeCall.original, mergeCall.override, mergeCall.result)

RECURSIVE PropertyOrder(_, _, _)
\* The keys of result are its array-index keys in ascending numeric order,
\* followed by its other keys in insertion order (base's in base's order,
\* then those only override has in override's order), at this level and in
\* every property that holds a plain mapping on both sides.
PropertyOrder(original, override, result) ==
    /\ \A m, n \in 1..Len(result.m) :
          m < n =>
             LET first == result.m[m].key
                 second == result.m[n].key
             IN  CASE IsArrayIndex(first) /\ IsArrayIndex(second) ->
                        IndexValue(first) < IndexValue(second)
                   [] IsArrayIndex(first) /\ ~IsArrayIndex(second) -> TRUE
                   [] ~IsArrayIndex(first) /\ IsArrayIndex(second) -> FALSE
                   [] OTHER ->
                        IF hasOwnProperty(original, first)
                        THEN hasOwnProperty(original, second) =>
                                KeyIndex(original, first) < KeyIndex(original, second)
                        ELSE /\ ~hasOwnProperty(original, second)
                             /\ KeyIndex(override, first) < KeyIndex(override, second)
    /\ \A key \in KeySet(result) :
          (/\ IsPlainObject(Prop(original, key))
           /\ IsPlainObject(Prop(override, key))) =>
              PropertyOrder(Prop(original, key), Prop(override, key), Prop(result, key))

\* C22, amended: the keys of deepMerge's result that are not array indices
\* are in insertion order, base's keys first in base's order, then the keys
\* only override has in override's order; the array-index keys of either
\* side come before them, in ascending numeric order; this holds at every
\* nesting depth that is merged recursively.
C22_PropertyOrder ==
    mergeCall.called =>
        PropertyOrder(mergeCall.original, mergeCall.override, mergeCall.result)

\* deepMerge({ b: { d: 2 }, a: 2 }, { 1: 1, b: { d: 2 } }): the keys are
\* assigned in the order b, a, 1 and the result has them in the order 1, b, a,
\* with b merged recursively.
C22_Witness ==
    /\ mergeCall.called
    /\ ObjectKeys(mergeCall.original) = <<"b", "a">>
    /\ ObjectKeys(mergeCall.override) = <<"1", "b">>
    /\ IsPlainObject(Prop(mergeCall.original, "b"))
    /\ ObjectKeys(mergeCall.result) = <<"1", "b", "a">>
    /\ ObjectKeys(Prop(mergeCall.result, "b")) = <<"d">>

RECURSIVE SeparateSets(_, _, _)
\* The override a key holds after the set calls log[i..] were made as separate
\* statements on a resolver holding acc for the key.
SeparateSets(log, i, acc) ==
    IF i > Len(log) THEN acc
    ELSE SeparateSets(log, i + 1,
                      IF Truthy(acc) THEN deepMerge(acc, log[i].values)
                      ELSE log[i].values)

\* C23: setDefault, set and addRuntime each return the very instance they
\* were called on: the value of every call expression of a chain is the
\* resolver itself, and the resolver a chain of calls configured holds what
\* the same calls made as separate statements leave in it (the last default
\* fragment, per key the fragments of its set calls combined in call order,
\* the runtime functions in call order).
C23_FluentChain ==
    instance.state = "CdkConfig" =>
        /\ returned = this
        /\ defaultValues = IF Len(defaultLog) = 0 THEN Obj(<<>>)
                           ELSE defaultLog[Len(defaultLog)]
        /\ runtimeConfigs = runtimeLog
        /\ DOMAIN overrides = {key \in EnvIds : Len(setLog[key]) > 0}
        /\ \A key \in DOMAIN overrides :
              overrides[key] = SeparateSets(setLog[key], 1, Undef)

\* new CdkConfig(schema).setDefault(fragSvc).set('a', fragApp)
\*   .addRuntime(rtSuffix), then get('a/b') on the value of the chain: all
\* three calls configured the instance that get resolves.
C23_Witness ==
    /\ returned = this
    /\ defaultLog = <<fragSvc>>
    /\ Len(setLog[<<"a">>]) = 1
    /\ setLog[<<"a">>][1].values = fragApp
    /\ runtimeLog = <<"rtSuffix">>
    /\ lastGet.called
    /\ lastGet.envId = <<"a", "/", "b">>
    /\ lastGet.outcome.status = "ok"
    /\ Prop(lastGet.outcome.value, "name") = Str("app-dev")
    /\ Prop(lastGet.outcome.value, "isEnabled") = Bool("false")

\* C27: each mutator changes only its own component of the resolver state:
\* a set(k, f) step leaves the default fragment, the runtime list and the
\* override of every key other than k unchanged; a setDefault step leaves
\* all overrides and the runtime list unchanged; an addRuntime step leaves
\* the default fragment and all overrides unchanged.
C27_MutatorFrame ==
    [][ /\ \A k \in EnvIds :
              setLog'[k] # setLog[k] =>
                 /\ defaultValues' = defaultValues
                 /\ runtimeConfigs' = runtimeConfigs
                 /\ \A j \in EnvIds \ {k} :
                       /\ j \in DOMAIN overrides' <=> j \in DOMAIN overrides
                       /\ overridesAt(overrides', j) = overridesAt(overrides, j)
        /\ defaultLog' # defaultLog =>
              /\ overrides' = overrides
              /\ runtimeConfigs' = runtimeConfigs
        /\ runtimeLog' # runtimeLog =>
              /\ defaultValues' = defaultValues
              /\ overrides' = overrides
      ]_vars

\* A default fragment, an override at 'a' and one at 'a/b' were registered by
\* three calls, and each component holds what its own call gave it.
C27_Witness ==
    /\ defaultLog = <<fragSvc>>
    /\ Len(setLog[<<"a">>]) = 1
    /\ Len(setLog[<<"a", "/", "b">>]) = 1
    /\ defaultValues = fragSvc
    /\ overrides[<<"a">>] = setLog[<<"a">>][1].values
    /\ overrides[<<"a", "/", "b">>] = setLog[<<"a", "/", "b">>][1].values
    /\ runtimeConfigs = <<>>

\* The merge steps of the last get whose segment was registered by exactly
\* two set calls, the first of which found no override.
TwoSetSteps ==
    SelectSeq(SegmentSteps,
              LAMBDA step : /\ Len(setLog[step.segment]) = 2
                            /\ setLog[step.segment][1].before = Undef)

\* C28 as stated: merging into the accumulator X the override stored by
\* set(k, A) then set(k, B) gives the same value as merging A into X and then
\* B into the result, for every X, A and B.
C28_AsStated ==
    lastGet.called =>
        \A i \in 1..Len(TwoSetSteps) :
            LET X == TwoSetSteps[i].original
                A == setLog[TwoSetSteps[i].segment][1].values
                B == setLog[TwoSetSteps[i].segment][2].values
            IN  TwoSetSteps[i].result = deepMerge(deepMerge(X, A), B)

\* C28, amended: set(k, A) then set(k, B) stores deepMerge(A, B), and get
\* merges it into the accumulator X in one step, deepMerge(X, deepMerge(A, B));
\* this equals the two successive layers deepMerge(deepMerge(X, A), B) when
\* no key holds a mapping in X and in B but a value that is not a mapping
\* in A.
C28_StoredCombination ==
    lastGet.called =>
        \A i \in 1..Len(TwoSetSteps) :
            LET X == TwoSetSteps[i].original
                A == setLog[TwoSetSteps[i].segment][1].values
                B == setLog[TwoSetSteps[i].segment][2].values
            IN  /\ TwoSetSteps[i].override = deepMerge(A, B)
                /\ TwoSetSteps[i].result = deepMerge(X, deepMerge(A, B))
                /\ ~MappingGap(X, A, B) =>
                      TwoSetSteps[i].result = deepMerge(deepMerge(X, A), B)

\* setDefault(fragApp), set('a', fragSvc), set('a', fragErase), get('a'):
\* the result is that of the two layers merged one after the other, tags
\* erased and version kept from the default.
C28_Witness ==
    /\ lastGet.called
    /\ lastGet.envId = <<"a">>
    /\ defaultValues = fragApp
    /\ Len(setLog[<<"a">>]) = 2
    /\ setLog[<<"a">>][1].values = fragSvc
    /\ setLog[<<"a">>][2].values = fragErase
    /\ Len(TwoSetSteps) = 1
    /\ TwoSetSteps[1].result = deepMerge(deepMerge(fragApp, fragSvc), fragErase)
    /\ Prop(TwoSetSteps[1].result, "tags") = Undef
    /\ Prop(TwoSetSteps[1].result, "version") = Str("1.0")

\* C29: when a custom merge function was passed to the constructor, get
\* uses it for every merge step of the resolution, one step per registered
\* override on the target's chain and one per runtime function, whereas
\* repeated set on the same key combines the fragments with the built-in
\* deepMerge, never with the custom function.
C29_CustomMerge ==
    instance.mergeFn = "customMerge" =>
        /\ lastGet.called =>
              /\ Len(SegmentSteps) =
                    Cardinality({key \in DOMAIN overrides : OnChain(key, lastGet.envId)})
              /\ Len(RuntimeCalls) = Len(runtimeConfigs)
              /\ \A i \in 1..Len(lastGet.steps) :
                    lastGet.steps[i].result =
                       customMerge(lastGet.steps[i].original, lastGet.steps[i].override)
        /\ \A key \in DOMAIN overrides :
              /\ overrides[key] = SeparateSets(setLog[key], 1, Undef)
              /\ Len(setLog[key]) = 2 =>
                    overrides[key] =
                       deepMerge(setLog[key][1].values, setLog[key][2].values)

\* new CdkConfig(schema, customMerge).set('a', fragApp).set('a', fragSvc)
\*   .addRuntime(rtEnv), then get('a'): the override of 'a' holds the tags of
\* both fragments (the built-in deep merge), and the runtime step replaced
\* the tags as a whole (the custom shallow merge).
C29_Witness ==
    /\ instance.mergeFn = "customMerge"
    /\ Len(setLog[<<"a">>]) = 2
    /\ setLog[<<"a">>][1].values = fragApp
    /\ setLog[<<"a">>][2].values = fragSvc
    /\ ObjectKeys(Prop(overrides[<<"a">>], "tags")) = <<"Owner", "Team">>
    /\ overrides[<<"a">>] # customMerge(fragApp, fragSvc)
    /\ runtimeConfigs = <<"rtEnv">>
    /\ lastGet.called
    /\ lastGet.envId = <<"a">>
    /\ Len(lastGet.steps) = 2
    /\ ObjectKeys(Prop(lastGet.mergedConfig, "tags")) = <<"Environment">>
    /\ lastGet.mergedConfig #
          deepMerge(lastGet.steps[2].original, lastGet.steps[2].override)

(* ------------------------------------------------------------------ *)
(* @cdklib/aws-policy: statements and policies                        *)
(* ------------------------------------------------------------------ *)

\* The number of statements a policy holds at most after an add.
MaxStatements == 2

\* The elements of a JavaScript array, in index order.
elements(arr) == [i \in 1..Len(arr.m) |-> arr.m[i].val]

\* The array of the given elements.
ArrayOf(vals) == Arr([i \in 1..Len(vals) |-> Entry(ToString(i - 1), vals[i])])

\* z.union([z.string(), z.array(z.string()).min(1)])
stringsSchema(v) ==
    \/ v.k = "str"
    \/ /\ v.k = "arr"
       /\ Len(v.m) >= 1
       /\ \A i \in 1..Len(v.m) : v.m[i].val.k = "str"

principalOptions == {"AWS", "CanonicalUser", "Federated", "Service"}

\* The condition operators the statements of the tests use.
conditionOperators == {"StringEquals", "IpAddress"}

\* Mutant: the schema checks the Effect only.
policyStatementSchema_effectOnly(raw) ==
    /\ raw.k = "obj"
    /\ Prop(raw, "Effect") \in {Str("Allow"), Str("Deny")}

\* policyStatementSchema.parse(raw) returns instead of throwing a ZodError.
policyStatementSchema(raw) ==
    /\ raw.k = "obj"
    /\ Prop(raw, "Effect") \in {Str("Allow"), Str("Deny")}
    /\ stringsSchema(Prop(raw, "Action"))
    /\ Prop(raw, "Resource").k = "undef" \/ stringsSchema(Prop(raw, "Resource"))
    /\ LET principal == Prop(raw, "Principal")
       IN  \/ principal.k = "undef"
           \/ /\ principal.k = "obj"
              /\ \A i \in 1..Len(principal.m) :
                    /\ principal.m[i].key \in principalOptions
                    /\ principal.m[i].val.k = "str"
              /\ Len(principal.m) = 1
    /\ LET condition == Prop(raw, "Condition")
       IN  \/ condition.k = "undef"
           \/ /\ condition.k = "obj"
              /\ \A i \in 1..Len(condition.m) :
                    /\ condition.m[i].key \in conditionOperators
                    /\ condition.m[i].val.k = "obj"
                    /\ \A j \in 1..Len(condition.m[i].val.m) :
                          stringsSchema(condition.m[i].val.m[j].val)

\* The ZodError thrown in the place of a result.
ZodError == [state |-> "ZodError", statements |-> <<>>]

\* statements.map((s) => new Statement(s)): the Statement objects, or the
\* ZodError the first invalid element throws.
mapStatements(raws) ==
    IF \E i \in 1..Len(raws) : ~policyStatementSchema(raws[i]) THEN ZodError
    ELSE [state |-> "Statements", statements |-> [i \in 1..Len(raws) |-> [raw |-> raws[i]]]]

\* new AwsPolicy(...statements)
newAwsPolicy(raws) ==
    IF mapStatements(raws) = ZodError THEN ZodError
    ELSE [state |-> "AwsPolicy", statements |-> mapStatements(raws).statements]

\* Mutant: add pushes each statement as soon as it is created, so the ones
\* before an invalid statement are added before the ZodError is thrown.
addStatements_oneByOne(statements, raws) ==
    LET valid == {n \in 0..Len(raws) : \A i \in 1..n : policyStatementSchema(raws[i])}
        n == CHOOSE n \in valid : \A other \in valid : other <= n
    IN  statements \o [i \in 1..n |-> [raw |-> raws[i]]]

\* this.statements after add(...raws): push is called with the mapped
\* statements, and not at all when the mapping threw.
addStatements(statements, raws) ==
    IF mapStatements(raws) = ZodError THEN statements
    ELSE statements \o mapStatements(raws).statements

\* Statements as callers write them.
\*   { Effect: 'Allow', Action: 's3:GetObject', Resource: 'arn:aws:s3:::b/*' }
stmtRead ==
    Obj(<< Entry("Effect", Str("Allow")), Entry("Action", Str("s3:GetObject")),
           Entry("Resource", Str("arn:aws:s3:::b/*")) >>)
\*   { Effect: 'Deny', Action: ['s3:GetObject', 's3:PutObject'],
\*     Principal: { AWS: 'arn:aws:iam::1:root' },
\*     Condition: { StringEquals: { 's3:prefix': ['photos'] } } }
stmtDeny ==
    Obj(<< Entry("Effect", Str("Deny")),
           Entry("Action", ArrayOf(<< Str("s3:GetObject"), Str("s3:PutObject") >>)),
           Entry("Principal", Obj(<< Entry("AWS", Str("arn:aws:iam::1:root")) >>)),
           Entry("Condition",
                 Obj(<< Entry("StringEquals",
                              Obj(<< Entry("s3:prefix",
                                           ArrayOf(<< Str("photos") >>)) >>)) >>)) >>)
\*   { Effect: 'Invalid', Action: 's3:GetObject' }
stmtBadEffect ==
    Obj(<< Entry("Effect", Str("Invalid")), Entry("Action", Str("s3:GetObject")) >>)
\*   { Effect: 'Allow', Resource: 'arn:aws:s3:::b/*' }
stmtNoAction ==
    Obj(<< Entry("Effect", Str("Allow")), Entry("Resource", Str("arn:aws:s3:::b/*")) >>)
\*   { Effect: 'Allow', Action: 's3:GetObject',
\*     Principal: { AWS: '...', Service: 'lambda.amazonaws.com' } }
stmtTwoPrincipals ==
    Obj(<< Entry("Effect", Str("Allow")), Entry("Action", Str("s3:GetObject")),
           Entry("Principal", Obj(<< Entry("AWS", Str("arn:aws:iam::1:root")),
                                     Entry("Service", Str("lambda.amazonaws.com")) >>)) >>)
\*   { Effect: 'Allow', Action: 's3:GetObject',
\*     Condition: { InvalidOperator: { 's3:prefix': 'photos' } } }
stmtBadCondition ==
    Obj(<< Entry("Effect", Str("Allow")), Entry("Action", Str("s3:GetObject")),
           Entry("Condition",
                 Obj(<< Entry("InvalidOperator",
                              Obj(<< Entry("s3:prefix", Str("photos")) >>)) >>)) >>)

ValidStatements == {stmtRead, stmtDeny}
InvalidStatements == {stmtBadEffect, stmtNoAction, stmtTwoPrincipals, stmtBadCondition}

\* The argument lists of from and add: no statement, one statement, or two
\* of which neither, either or both have an invalid Effect.
Batches ==
    {<<>>}
    \cup {<<raw>> : raw \in ValidStatements \cup InvalidStatements}
    \cup {<<first, second>> : first, second \in ValidStatements \cup {stmtBadEffect}}

\* What fromRaw is handed: a parsed JSON array, a single object, or something
\* that is no statement at all.
RawInputs ==
    {ArrayOf(batch) : batch \in Batches}
    \cup ValidStatements \cup InvalidStatements \cup {Undef, Str("Allow")}

\* The parameters a prepared policy is filled with: any of bucketName,
\* accountId and ipAddress.
ParamObjects ==
    {Obj(SelectSeq(<< Entry("bucketName", Str(bucket)), Entry("accountId", Str("1")),
                      Entry("ipAddress", Str("10.0.0.0/8")) >>,
                   LAMBDA e : e.key \in keys)) :
        bucket \in {"data", "logs"},
        keys \in SUBSET {"bucketName", "accountId", "ipAddress"}}

\* The templates of prepared policies, as functions of the parameters:
\*   s3Read:  ({ bucketName, accountId }) => ({ Effect: 'Allow',
\*              Action: ['s3:GetObject'],
\*              Resource: [`arn:aws:s3:::${bucketName}/*`],
\*              Principal: { AWS: `arn:aws:iam::${accountId}:root` } })
\*   sourceIp: ({ bucketName, ipAddress }) => [
\*              { Effect: 'Allow', Action: ['s3:GetObject'],
\*                Resource: [`arn:aws:s3:::${bucketName}/*`] },
\*              { Effect: 'Deny', Action: ['s3:GetObject'],
\*                Condition: { IpAddress: { 'aws:SourceIp': ipAddress } } } ]
Templates == {"s3Read", "sourceIp"}

templateFn(template, params) ==
    CASE template = "s3Read" ->
           Obj(<< Entry("Effect", Str("Allow")),
                  Entry("Action", ArrayOf(<< Str("s3:GetObject") >>)),
                  Entry("Resource",
                        ArrayOf(<< Str("arn:aws:s3:::"
                                       \o TemplateString(Prop(params, "bucketName"))
                                       \o "/*") >>)),
                  Entry("Principal",
                        Obj(<< Entry("AWS",
                                     Str("arn:aws:iam::"
                                         \o TemplateString(Prop(params, "accountId"))
                                         \o ":root")) >>)) >>)
      [] template = "sourceIp" ->
           ArrayOf(<< Obj(<< Entry("Effect", Str("Allow")),
                             Entry("Action", ArrayOf(<< Str("s3:GetObject") >>)),
                             Entry("Resource",
                                   ArrayOf(<< Str("arn:aws:s3:::"
                                       \o TemplateString(Prop(params, "bucketName"))
                                       \o "/*") >>)) >>),
                      Obj(<< Entry("Effect", Str("Deny")),
                             Entry("Action", ArrayOf(<< Str("s3:GetObject") >>)),
                             Entry("Condition",
                                   Obj(<< Entry("IpAddress",
                                          Obj(<< Entry("aws:SourceIp",
                                                       Prop(params, "ipAddress")) >>)) >>)) >>) >>)

\* { ...params, ...remainingParams }
spread(params, remainingParams) ==
    LET keys == allKeys(params, remainingParams)
    IN  Obj(OwnPropertyOrder(
                [i \in 1..Len(keys) |->
                    Entry(keys[i], IF hasOwnProperty(remainingParams, keys[i])
                                   THEN Prop(remainingParams, keys[i])
                                   ELSE Prop(params, keys[i]))]))

\* Mutant: the function fillPartial builds calls the template directly, not
\* the statementFn of the policy it was called on, so only the parameters of
\* the last fillPartial are combined.
statementFn_lastStageOnly(template, partials, params) ==
    IF Len(partials) = 0 THEN templateFn(template, params)
    ELSE templateFn(template, spread(partials[Len(partials)], params))

RECURSIVE statementFn(_, _, _)
\* this.statementFn(params) of a prepared policy: the template itself, or
\* the function its last fillPartial built, which combines that call's
\* parameters with the ones it is given and calls the statementFn of the
\* policy fillPartial was called on.
statementFn(template, partials, params) ==
    IF Len(partials) = 0 THEN templateFn(template, params)
    ELSE statementFn(template, SubSeq(partials, 1, Len(partials) - 1),
                     spread(partials[Len(partials)], params))

\* fill(params): AwsPolicy.from(...statements) of the statement function's
\* result, an array or a single statement.
fillResult(template, partials, params) ==
    LET result == statementFn(template, partials, params)
    IN  newAwsPolicy(IF result.k = "arr" THEN elements(result) ELSE <<result>>)

\* What a call on the policy classes leaves alone.
notPolicy == <<resolver, constructs, prepared, synthPath, pathCall, synth>>

\* AwsPolicy.from(...batch), its result kept as the policy id.
from(id, batch) ==
    /\ policies[id].state = "none"
    /\ LET created == newAwsPolicy(batch)
       IN  /\ policies' = IF created = ZodError THEN policies
                          ELSE [policies EXCEPT ![id] = created]
           /\ policyCall' = [op |-> "from", target |-> id, given |-> batch,
                             threw |-> created = ZodError, before |-> policies[id],
                             result |-> created,
                      on |-> NoPrepared, params |-> Undef]
    /\ UNCHANGED notPolicy

\* AwsPolicy.fromRaw(statements), its result kept as the policy id.
fromRaw(id, statements) ==
    /\ policies[id].state = "none"
    /\ LET raws == IF statements.k = "arr" THEN elements(statements)
                   ELSE <<statements>>
           created == newAwsPolicy(raws)
       IN  /\ policies' = IF created = ZodError THEN policies
                          ELSE [policies EXCEPT ![id] = created]
           /\ policyCall' = [op |-> "fromRaw", target |-> id, given |-> raws,
                             threw |-> created = ZodError, before |-> policies[id],
                             result |-> created,
                      on |-> NoPrepared, params |-> Undef]
    /\ UNCHANGED notPolicy

\* policies[id].add(...batch)
add(id, batch) ==
    /\ policies[id].state = "AwsPolicy"
    /\ Len(addStatements(policies[id].statements, batch)) <= MaxStatements
    /\ policies' = [policies EXCEPT
                       ![id].statements = addStatements(@, batch)]
    /\ policyCall' = [op |-> "add", target |-> id, given |-> batch,
                      threw |-> mapStatements(batch) = ZodError,
                      before |-> policies[id],
                      result |-> IF mapStatements(batch) = ZodError THEN ZodError
                                 ELSE [policies[id] EXCEPT
                                          !.statements = addStatements(@, batch)],
                      on |-> NoPrepared, params |-> Undef]
    /\ UNCHANGED notPolicy

\* AwsPolicy.combine(ids): the raw statements of the policies are collected
\* and handed to AwsPolicy.from.
combine(ids) ==
    /\ \A i \in 1..Len(ids) : policies[ids[i]].state = "AwsPolicy"
    /\ LET RECURSIVE collect(_)
           collect(i) ==
               IF i > Len(ids) THEN <<>>
               ELSE [n \in 1..Len(policies[ids[i]].statements) |->
                        policies[ids[i]].statements[n].raw] \o collect(i + 1)
           created == newAwsPolicy(collect(1))
       IN  policyCall' = [op |-> "combine", target |-> "", given |-> collect(1),
                          threw |-> created = ZodError, before |-> NoPolicy,
                          result |-> created,
                      on |-> NoPrepared, params |-> Undef]
    /\ UNCHANGED <<policies, notPolicy>>

\* new AwsPreparedPolicy(template): the prepared policy id is created.
newAwsPreparedPolicy(id, template) ==
    /\ prepared[id].state = "none"
    /\ prepared' = [prepared EXCEPT
                       ![id] = [state |-> "AwsPreparedPolicy", template |-> template,
                                partials |-> <<>>]]
    /\ UNCHANGED <<resolver, constructs, policies, policyCall, synthPath, pathCall,
                   synth>>

\* prepared[id].fillPartial(params), its result kept as the prepared policy
\* newId: a new AwsPreparedPolicy whose statement function remembers params
\* and the policy it was made from.
fillPartial(id, params, newId) ==
    /\ prepared[id].state = "AwsPreparedPolicy"
    /\ prepared[newId].state = "none"
    /\ prepared' = [prepared EXCEPT
                       ![newId] = [state |-> "AwsPreparedPolicy",
                                   template |-> prepared[id].template,
                                   partials |-> Append(prepared[id].partials, params)]]
    /\ UNCHANGED <<resolver, constructs, policies, policyCall, synthPath, pathCall,
                   synth>>

\* on.fill(params), for the prepared policy on.
fill(on, params) ==
    /\ on.state = "AwsPreparedPolicy"
    /\ policyCall' = [op |-> "fill", target |-> "",
                      given |-> LET result == statementFn(on.template, on.partials, params)
                                IN  IF result.k = "arr" THEN elements(result)
                                    ELSE <<result>>,
                      threw |-> fillResult(on.template, on.partials, params) = ZodError,
                      before |-> NoPolicy,
                      result |-> fillResult(on.template, on.partials, params),
                      on |-> on, params |-> params]
    /\ UNCHANGED <<policies, notPolicy>>

InitPolicy == InitContext

NextPolicy ==
    \/ \E id \in PolicyIds, batch \in Batches : from(id, batch)
    \/ \E id \in PolicyIds, statements \in RawInputs : fromRaw(id, statements)
    \/ \E id \in PolicyIds, batch \in Batches : add(id, batch)
    \/ \E ids \in UNION {[1..n -> PolicyIds] : n \in 0..2} : combine(ids)
    \/ \E template \in Templates, params \in ParamObjects :
           fill([state |-> "AwsPreparedPolicy", template |-> template,
                 partials |-> <<>>], params)

SpecPolicy == InitPolicy /\ [][NextPolicy]_vars

\* The raw statements of a sequence of Statement objects.
RawOf(statements) == [i \in 1..Len(statements) |-> statements[i].raw]

\* C24: every statement held by an AwsPolicy has passed the statement schema
\* (none of the invalid statements is ever held, by a policy or by the result
\* of a call); from, fromRaw, add, combine and fill throw when given any
\* invalid statement and otherwise hold every statement they were given; an
\* add whose batch contains an invalid statement leaves the policy's
\* statements as they were.
C24_StatementsValidated ==
    /\ \A id \in PolicyIds :
          \A i \in 1..Len(policies[id].statements) :
              /\ policyStatementSchema(policies[id].statements[i].raw)
              /\ policies[id].statements[i].raw \notin InvalidStatements
    /\ \A i \in 1..Len(policyCall.result.statements) :
          /\ policyStatementSchema(policyCall.result.statements[i].raw)
          /\ policyCall.result.statements[i].raw \notin InvalidStatements
    /\ policyCall.op # "none" =>
          /\ policyCall.threw <=>
                \E i \in 1..Len(policyCall.given) :
                    ~policyStatementSchema(policyCall.given[i])
          /\ policyCall.threw =>
                /\ policyCall.result = ZodError
                /\ policyCall.target \in PolicyIds =>
                      policies[policyCall.target] = policyCall.before
          /\ ~policyCall.threw =>
                /\ policyCall.result.state = "AwsPolicy"
                /\ RawOf(policyCall.result.statements) =
                      RawOf(policyCall.before.statements) \o policyCall.given
                /\ policyCall.target \in PolicyIds =>
                      policies[policyCall.target] = policyCall.result

\* policy1 holds stmtRead and add(stmtDeny, stmtBadEffect) threw: the policy
\* still holds stmtRead alone, the valid stmtDeny of the batch was not added.
C24_Witness ==
    /\ policyCall.op = "add"
    /\ policyCall.target = "policy1"
    /\ policyCall.given = <<stmtDeny, stmtBadEffect>>
    /\ policyCall.threw
    /\ RawOf(policies["policy1"].statements) = <<stmtRead>>

(***************************************************************************)
(* Prepared policies filled in stages                                      *)
(***************************************************************************)

\* The parameters of a fillPartial call: none, or one of the template's
\* parameters.
PartialParams == {params \in ParamObjects : Len(params.m) <= 1}

InitPrepared == InitContext

NextPrepared ==
    \/ \E template \in Templates : newAwsPreparedPolicy("template", template)
    \/ \E id \in PreparedIds, params \in PartialParams, newId \in {"stage1", "stage2"} :
           fillPartial(id, params, newId)
    \/ \E id \in PreparedIds, params \in ParamObjects : fill(prepared[id], params)

SpecPrepared == InitPrepared /\ [][NextPrepared]_vars

\* The parameters of the stages taken together: each parameter has the value
\* the last stage naming it gave it.
CombinedParams(stages) ==
    LET names == UNION {{stages[i].m[n].key : n \in 1..Len(stages[i].m)} :
                           i \in 1..Len(stages)}
        lastStage(name) ==
            CHOOSE i \in 1..Len(stages) :
                /\ hasOwnProperty(stages[i], name)
                /\ \A j \in (i + 1)..Len(stages) : ~hasOwnProperty(stages[j], name)
        ordered == SelectSeq(<< "bucketName", "accountId", "ipAddress" >>,
                             LAMBDA name : name \in names)
    IN  Obj([n \in 1..Len(ordered) |->
                Entry(ordered[n], Prop(stages[lastStage(ordered[n])], ordered[n]))])

\* C25: a fill at the end of a chain of fillPartial steps produces the policy
\* that a fill of the combined parameters produces, on the template itself and
\* on every prepared policy along the chain; and no step changes a prepared
\* policy that exists, so each stays usable with other parameters.
C25_StagedFill ==
    /\ [](policyCall.op = "fill" =>
            \A k \in 0..Len(policyCall.on.partials) :
                policyCall.result =
                    fillResult(policyCall.on.template,
                               SubSeq(policyCall.on.partials, 1, k),
                               CombinedParams(
                                   SubSeq(policyCall.on.partials, k + 1,
                                          Len(policyCall.on.partials))
                                   \o << policyCall.params >>)))
    /\ [][\A id \in PreparedIds :
              prepared[id].state # "none" => prepared'[id] = prepared[id]]_vars

\* P holds the s3Read template; stage1 is P.fillPartial({ bucketName: 'data' }),
\* stage2 is stage1.fillPartial({ accountId: '1' }), P itself is as it was
\* created, and stage2.fill({}) returned the policy of P.fill({ bucketName:
\* 'data', accountId: '1' }).
C25_Witness ==
    /\ prepared["template"] = [state |-> "AwsPreparedPolicy", template |-> "s3Read",
                               partials |-> <<>>]
    /\ prepared["stage1"].partials = << Obj(<< Entry("bucketName", Str("data")) >>) >>
    /\ prepared["stage2"].partials =
          << Obj(<< Entry("bucketName", Str("data")) >>),
             Obj(<< Entry("accountId", Str("1")) >>) >>
    /\ policyCall.op = "fill"
    /\ policyCall.on = prepared["stage2"]
    /\ policyCall.params = Obj(<<>>)
    /\ ~policyCall.threw
    /\ policyCall.result =
          newAwsPolicy(<< templateFn("s3Read",
                                     Obj(<< Entry("bucketName", Str("data")),
                                            Entry("accountId", Str("1")) >>)) >>)

(***************************************************************************)
(* Synth paths of constructs (@cdklib/argo-synth)                          *)
(***************************************************************************)

\* parts.join('/')
joinWith(parts) ==
    LET RECURSIVE rest(_)
        rest(i) == IF i > Len(parts) THEN <<>>
                   ELSE IF i = Len(parts) THEN parts[i]
                   ELSE parts[i] \o <<"/">> \o rest(i + 1)
    IN  rest(1)

\* The segments of a path with '.', '' and '..' resolved, as path.normalize
\* resolves them: '..' takes the segment before it away, and stays when there
\* is none to take and the path is relative.
normalizeSegments(segments, allowAboveRoot) ==
    LET RECURSIVE walk(_, _)
        walk(i, res) ==
            IF i > Len(segments) THEN res
            ELSE IF segments[i] = <<>> \/ segments[i] = <<".">> THEN walk(i + 1, res)
            ELSE IF segments[i] = <<".", ".">>
                 THEN IF Len(res) > 0 /\ res[Len(res)] # <<".", ".">>
                      THEN walk(i + 1, SubSeq(res, 1, Len(res) - 1))
                      ELSE IF allowAboveRoot THEN walk(i + 1, Append(res, segments[i]))
                      ELSE walk(i + 1, res)
            ELSE walk(i + 1, Append(res, segments[i]))
    IN  walk(1, <<>>)

\* path.normalize(path) of the posix path module
normalize(path) ==
    IF Len(path) = 0 THEN <<".">>
    ELSE LET isAbsolute == path[1] = "/"
             trailingSeparator == path[Len(path)] = "/"
             resolved == joinWith(normalizeSegments(split(path), ~isAbsolute))
         IN  IF Len(resolved) = 0
             THEN IF isAbsolute THEN <<"/">>
                  ELSE IF trailingSeparator THEN <<".", "/">> ELSE <<".">>
             ELSE (IF isAbsolute THEN <<"/">> ELSE <<>>) \o resolved
                  \o (IF trailingSeparator THEN <<"/">> ELSE <<>>)

\* path.join(...parts): the non-empty parts joined by '/' and normalized,
\* '.' when there is none.
join(parts) ==
    LET given == SelectSeq(parts, LAMBDA part : Len(part) > 0)
    IN  IF Len(given) = 0 THEN <<".">> ELSE normalize(joinWith(given))

\* The Error getSynthPath throws, in the place of the path.
NoSynthPathError == <<"Error", "No synth path found - call addSynthPath first">>

\* Mutant: only the construct's own context is read.
getSynthPath_ownOnly(paths, scope) ==
    IF paths[scope].set THEN paths[scope].path ELSE NoSynthPathError

RECURSIVE getSynthPath(_, _)
\* getSynthPath(scope): scope.node.getContext(SYNTH_PATH_KEY), the construct's
\* own value when set, else its scope's; the lookup's Error becomes
\* 'No synth path found'.
getSynthPath(paths, scope) ==
    IF paths[scope].set THEN paths[scope].path
    ELSE IF scopeOf(scope) = "" THEN NoSynthPathError
    ELSE getSynthPath(paths, scopeOf(scope))

\* The suffixes passed to addSynthPath: 'a', 'b', '..' and ''.
Suffixes == { <<"a">>, <<"b">>, <<".", ".">>, <<>> }

\* The ...suffixes of a call: none, one, or two as in
\* addSynthPath(scope, 'a', 'b') and addSynthPath(scope, '..', 'a').
SuffixLists ==
    {<<>>} \cup {<<suffix>> : suffix \in Suffixes}
    \cup { << <<"a">>, <<"b">> >>, << <<".", ".">>, <<"a">> >> }

\* addSynthPath(scope, ...suffixes); setContext throws once scope has
\* children, and the call then sets nothing.
addSynthPath(scope, suffixes) ==
    /\ constructs[scope].created
    /\ pathCall.calls < MaxOps
    /\ LET found == getSynthPath(synthPath, scope)
           currentPath == IF found = NoSynthPathError THEN <<>> ELSE found
           basePath == IF Len(currentPath) > 0 THEN <<currentPath>> ELSE <<>>
           value == join(basePath \o suffixes)
       IN  /\ Len(value) <= MaxLen
           /\ synthPath' = IF setContextThrows(constructs, scope) THEN synthPath
                           ELSE [synthPath EXCEPT
                                    ![scope] = [set |-> TRUE, path |-> value]]
           /\ pathCall' = [calls |-> pathCall.calls + 1, scope |-> scope, suffixes |-> suffixes,
                           threw |-> setContextThrows(constructs, scope),
                           before |-> currentPath]
    /\ UNCHANGED <<resolver, constructs, policies, policyCall, prepared, synth>>

InitPaths == InitContext

NextPaths ==
    \/ \E node \in Nodes : newConstruct(node)
    \/ \E scope \in Nodes, suffixes \in SuffixLists : addSynthPath(scope, suffixes)

SpecPaths == InitPaths /\ [][NextPaths]_vars

\* The path visible at a construct: its own when set, else the one of the
\* nearest construct above it that has one, else the empty path.
VisiblePath(paths, node) ==
    LET holders == {n \in AncestorsOrSelf(node) : paths[n].set}
    IN  IF holders = {} THEN <<>>
        ELSE paths[CHOOSE n \in holders :
                       \A other \in holders : other \in AncestorsOrSelf(n)].path

\* C26: a call of addSynthPath that returns sets the construct's synth path to
\* the path that was visible at it joined with the suffixes, and changes the
\* synth path of no other construct; a call that throws changes none.
C26_AddSynthPath ==
    [][pathCall' # pathCall =>
          LET scope == pathCall'.scope
              visible == VisiblePath(synthPath, scope)
          IN  /\ pathCall'.before = visible
              /\ \A node \in Nodes \ {scope} : synthPath'[node] = synthPath[node]
              /\ IF pathCall'.threw THEN synthPath'[scope] = synthPath[scope]
                 ELSE synthPath'[scope] =
                          [set |-> TRUE,
                           path |-> join((IF visible = <<>> THEN <<>>
                                          ELSE <<visible>>) \o pathCall'.suffixes)]]_vars

\* root has the path 'a'; child1, created under it, was given the suffix 'b'
\* twice and has 'a/b/b': its path extends root's and its calls accumulated;
\* root's path is still 'a' and child2 has none of its own.
C26_Witness ==
    /\ synthPath["root"] = [set |-> TRUE, path |-> <<"a">>]
    /\ synthPath["child1"] = [set |-> TRUE, path |-> <<"a", "/", "b", "/", "b">>]
    /\ constructs["child2"].created
    /\ ~synthPath["child2"].set
    /\ pathCall = [calls |-> 3, scope |-> "child1", suffixes |-> << <<"b">> >>,
                   threw |-> FALSE, before |-> <<"a", "/", "b">>]

(***************************************************************************)
(* synthApps: the file system operations of one run                        *)
(***************************************************************************)

\* The run synthesizes one app with a helm chart at the synth path 'h' and a
\* plain chart with two API objects, at the synth paths 'p' and 'p/y'.  The
\* helm chart has no API object, or one that has the chart's path, or one
\* with the path 'h/x' of its own.
HelmObjects == {"none", "inherits", "own"}

outputPath == << "out" >>

\* The file system operations of the run.
MkdirOps == {"wipeMkdir", "helmChartDir", "helmTemplatesDir", "helmObjectDir",
             "plainDir1", "plainDir2"}
WriteOps == {"helmObjectFile", "chartYaml", "valuesYaml", "plainFile1", "plainFile2"}
Ops == {"rm"} \cup MkdirOps \cup WriteOps

\* The synth path of the helm chart's API object.
helmObjectPath(run) ==
    IF run.helmObject = "own" THEN << "h", "x" >> ELSE << "h" >>

\* The directory an operation is given, or the directory of the file it is
\* given.
dirOf(run, op) ==
    CASE op \in {"rm", "wipeMkdir"} -> outputPath
      [] op \in {"helmChartDir", "chartYaml", "valuesYaml"} -> outputPath \o << "h" >>
      [] op = "helmTemplatesDir" -> outputPath \o << "h", "templates" >>
      [] op \in {"helmObjectDir", "helmObjectFile"} ->
           outputPath \o helmObjectPath(run) \o << "templates" >>
      [] op \in {"plainDir1", "plainFile1"} -> outputPath \o << "p" >>
      [] op \in {"plainDir2", "plainFile2"} -> outputPath \o << "p", "y" >>

\* The name of the file a write is given.
fileOf(op) ==
    CASE op = "chartYaml" -> "Chart.yaml"
      [] op = "valuesYaml" -> "values.yaml"
      [] op = "helmObjectFile" -> "Deployment.web.yaml"
      [] op = "plainFile1" -> "Service.api.yaml"
      [] op = "plainFile2" -> "ConfigMap.env.yaml"

\* path is dirname or lies under it.
IsUnder(path, dirname) ==
    Len(path) >= Len(dirname) /\ SubSeq(path, 1, Len(dirname)) = dirname

\* rm -rf dirname
rmrf(run, dirname) ==
    [run EXCEPT !.dirs = {d \in @ : ~IsUnder(d, dirname)},
                !.files = {f \in @ : ~IsUnder(f, dirname)}]

\* mkdir(dirname, { recursive: true })
mkdir(run, dirname) ==
    [run EXCEPT !.dirs = @ \cup {SubSeq(dirname, 1, n) : n \in 1..Len(dirname)}]

\* writeFile(path.join(dirname, name), ...): ENOENT when the directory is
\* missing.
writeFile(run, op) ==
    IF dirOf(run, op) \in run.dirs
    THEN [run EXCEPT !.files = @ \cup {Append(dirOf(run, op), fileOf(op))},
                     !.ops[op] = "done"]
    ELSE [run EXCEPT !.ops[op] = "failed"]

\* The points the run's code continues from once the operations it awaits
\* have completed.
Turns == {"wipeMkdir", "synthApp", "helmTemplates", "helmFiles", "helmObjects",
          "plainObjects"}

\* Mutant: synthApps does not await wipeDirectory.
awaits_wipeNotAwaited(run, turn) ==
    CASE turn = "wipeMkdir" -> {"rm"}
      [] turn = "synthApp" -> {}
      [] turn = "helmTemplates" -> {"helmChartDir"}
      [] turn = "helmFiles" ->
           IF run.helmObject = "none" THEN {"helmChartDir"} ELSE {"helmTemplatesDir"}
      [] turn = "helmObjects" -> {"helmObjectDir"}
      [] turn = "plainObjects" -> {"plainDir1", "plainDir2"}

\* The operations whose completion the code awaits before it continues at
\* the turn.
awaits(run, turn) ==
    CASE turn = "wipeMkdir" -> {"rm"}
      [] turn = "synthApp" -> IF run.clean THEN {"rm", "wipeMkdir"} ELSE {}
      [] turn = "helmTemplates" -> {"helmChartDir"}
      [] turn = "helmFiles" ->
           IF run.helmObject = "none" THEN {"helmChartDir"} ELSE {"helmTemplatesDir"}
      [] turn = "helmObjects" -> {"helmObjectDir"}
      [] turn = "plainObjects" -> {"plainDir1", "plainDir2"}

\* The operations the code issues at the turn before it awaits again.
issues(run, turn) ==
    CASE turn = "wipeMkdir" -> IF run.clean THEN {"wipeMkdir"} ELSE {}
      [] turn = "synthApp" -> {"helmChartDir", "plainDir1", "plainDir2"}
      [] turn = "helmTemplates" ->
           IF run.helmObject = "none" THEN {} ELSE {"helmTemplatesDir"}
      [] turn = "helmFiles" ->
           {"chartYaml", "valuesYaml"}
           \cup (IF run.helmObject = "none" THEN {} ELSE {"helmObjectDir"})
      [] turn = "helmObjects" ->
           IF run.helmObject = "none" THEN {} ELSE {"helmObjectFile"}
      [] turn = "plainObjects" -> {"plainFile1", "plainFile2"}

\* The output directory a run starts with: missing, or left by an earlier
\* run with a file of a chart that no longer exists.
InitialDirs == {{}, {outputPath, outputPath \o << "old" >>}}

\* synthApps(outputPath, apps, { clean }): with clean the wipe's rm is issued;
\* without it the charts' first directories are, in the same turn.
synthApps(clean, helmObject, dirs) ==
    /\ synth.state = "none"
    /\ LET run == [state |-> "running", clean |-> clean, helmObject |-> helmObject,
                   ops |-> [op \in Ops |-> "notIssued"], dirs |-> dirs,
                   files |-> {Append(d, "old.yaml") : d \in dirs \ {outputPath}}]
           first == IF clean THEN {"rm"} ELSE issues(run, "synthApp")
       IN  synth' = [run EXCEPT
                        !.ops = [op \in Ops |-> IF op \in first THEN "pending"
                                                ELSE "notIssued"]]
    /\ UNCHANGED <<resolver, constructs, policies, policyCall, prepared, synthPath,
                   pathCall>>

\* The code continues at a turn: everything it awaited has completed, and it
\* issues the turn's operations.
resume(turn) ==
    /\ synth.state = "running"
    /\ issues(synth, turn) # {}
    /\ \A op \in issues(synth, turn) : synth.ops[op] = "notIssued"
    /\ \A op \in awaits(synth, turn) : synth.ops[op] = "done"
    /\ synth' = [synth EXCEPT
                    !.ops = [op \in Ops |-> IF op \in issues(synth, turn) THEN "pending"
                                            ELSE @[op]]]
    /\ UNCHANGED <<resolver, constructs, policies, policyCall, prepared, synthPath,
                   pathCall>>

\* A pending operation takes effect and its promise settles.
complete(op) ==
    /\ synth.state = "running"
    /\ synth.ops[op] = "pending"
    /\ synth' = IF op = "rm"
                THEN [rmrf(synth, dirOf(synth, op)) EXCEPT !.ops[op] = "done"]
                ELSE IF op \in MkdirOps
                THEN [mkdir(synth, dirOf(synth, op)) EXCEPT !.ops[op] = "done"]
                ELSE writeFile(synth, op)
    /\ UNCHANGED <<resolver, constructs, policies, policyCall, prepared, synthPath,
                   pathCall>>

InitSynth == InitContext

NextSynth ==
    \/ \E clean \in BOOLEAN, helmObject \in HelmObjects, dirs \in InitialDirs :
           synthApps(clean, helmObject, dirs)
    \/ \E turn \in Turns : resume(turn)
    \/ \E op \in Ops : complete(op)

SpecSynth == InitSynth /\ [][NextSynth]_vars

\* C30: in every state of a run, under every interleaving of its operations:
\* a write that was issued has its directory in place, no write failed on a
\* missing directory, and a written file is there; with clean, no directory
\* creation of a chart and no write was issued before the wipe (its rm and
\* its mkdir) completed, and nothing the earlier run left is there once the
\* charts are synthesized.
C30_WritesAfterDirectories ==
    synth.state = "running" =>
        /\ \A op \in WriteOps :
              /\ synth.ops[op] # "failed"
              /\ synth.ops[op] # "notIssued" => dirOf(synth, op) \in synth.dirs
              /\ synth.ops[op] = "done" =>
                    Append(dirOf(synth, op), fileOf(op)) \in synth.files
        /\ synth.clean =>
              \A op \in Ops \ {"rm", "wipeMkdir"} :
                  synth.ops[op] # "notIssued" =>
                      /\ synth.ops["rm"] = "done"
                      /\ synth.ops["wipeMkdir"] = "done"
                      /\ \A f \in synth.files : f[Len(f)] # "old.yaml"

\* A run with clean over an output directory an earlier run left, with a helm
\* chart whose API object has a path of its own: every operation completed,
\* all five files are there and the earlier run's file is gone.
C30_Witness ==
    /\ synth.state = "running"
    /\ synth.clean
    /\ synth.helmObject = "own"
    /\ \A op \in Ops : synth.ops[op] = "done"
    /\ synth.files = {Append(dirOf(synth, op), fileOf(op)) : op \in WriteOps}
    /\ outputPath \o << "h", "x", "templates" >> \in synth.dirs

====
